---- MODULE Spec2Model ----
(***************************************************************************)
(* Progression engine of the Solo Leveling System.                         *)
(*                                                                         *)
(* Three programs of the repository are modelled:                          *)
(*   v1  src/sl.py    text menu, JSON snapshot file  leveling_data.json     *)
(*   v2  src/slv2.py  text menu, SQLite database     solo_leveling.db       *)
(*   v3  src/slv3.py  graphical, SQLite database     solo_leveling.db       *)
(* v2 and v3 open the same database file.  One program runs at a time      *)
(* (single active user); the persisted state survives between runs.        *)
(*                                                                         *)
(* Texts typed by the user are sequences of one-character strings, so that *)
(* strip() and int() are computed as Python computes them.                 *)
(***************************************************************************)
EXTENDS Integers, Sequences, FiniteSets, TLC

(***************************************************************************)
(* Bounds of the model                                                     *)
(***************************************************************************)
\* sessions that may be committed in one behaviour (database + JSON file)
MaxSessions == 2
\* largest total_points handed to the leveling calculator on its own
MaxTotalPoints == 450
\* longest history handed to the history readers on its own
MaxHistory == 11
\* highest level handed to the store write path on its own
MaxWriteLevel == 101

(***************************************************************************)
(* Taxonomy: self.attributes.  The reference has 5 x 10 skills; the count  *)
(* is a parameter, the model keeps two categories in dictionary order.     *)
(***************************************************************************)
AttributeOrder == <<"life_skills", "career">>

attributes ==
    [a \in {"life_skills", "career"} |->
        IF a = "life_skills" THEN <<"communication">>
                             ELSE <<"technical_mastery">>]

RECURSIVE KeysFrom(_, _)
KeysFrom(i, j) ==
    IF i > Len(AttributeOrder) THEN <<>>
    ELSE IF j > Len(attributes[AttributeOrder[i]]) THEN KeysFrom(i + 1, 1)
    ELSE <<<<AttributeOrder[i], attributes[AttributeOrder[i]][j]>>>>
             \o KeysFrom(i, j + 1)

\* (attribute, skill) pairs in the order "for attribute ...: for skill ..."
SkillOrder == KeysFrom(1, 1)
SkillKeys  == {SkillOrder[i] : i \in 1..Len(SkillOrder)}
NumSkills  == Len(SkillOrder)

(***************************************************************************)
(* Texts                                                                   *)
(***************************************************************************)
Blank == <<>>

UpdateTexts ==
    { Blank, <<"x">>, <<"1","1">>, <<"1","2">>, <<"1","0","0">>, <<"1","0","1">> }

AssessTexts ==
    { Blank, <<"x">>, <<"-","3">>, <<"9","5">>, <<"1","5","0">> }

GoodDate == <<"2","0","3","0","-","0","1","-","0","1">>
BadDate  == <<"0","1","/","0","2">>
DateTexts == { Blank, GoodDate, BadDate }

\* date part of datetime.now().isoformat()
TodayText == <<"2","0","2","5","-","0","6","-","1","5">>

DigitSeq == <<"0","1","2","3","4","5","6","7","8","9">>
IsDigit(c) == \E n \in 1..10 : DigitSeq[n] = c
DigitVal(c) == (CHOOSE n \in 1..10 : DigitSeq[n] = c) - 1
\* str.isspace(), which str.strip() goes by, over the ASCII characters:
\* blank, \t, \n, \r, \f and, written as the characters themselves, \v (0B),
\* 1C, 1D, 1E and 1F.  Python also strips the non-ASCII spaces 85, A0, U+1680,
\* U+2000-200A, 2028, 2029, 202F, 205F and 3000; a string of this module
\* holds ASCII characters only, so no text of the model contains them and
\* every other character is not whitespace.
IsSpace(c) ==
    c \in {" ", "\t", "\n", "\r", "\f", "", "", "", "", ""}

\* the whitespace int() skips around a number: the same without 1C-1F
IsIntSpace(c) == IsSpace(c) /\ c \notin {"", "", "", ""}

RECURSIVE lstrip(_)
lstrip(s) == IF s = <<>> THEN s
             ELSE IF IsSpace(Head(s)) THEN lstrip(Tail(s)) ELSE s

RECURSIVE rstrip(_)
rstrip(s) == IF s = <<>> THEN s
             ELSE IF IsSpace(s[Len(s)]) THEN rstrip(SubSeq(s, 1, Len(s) - 1)) ELSE s

\* str.strip()
strip(s) == rstrip(lstrip(s))

RECURSIVE digits_value(_, _)
digits_value(s, acc) ==
    IF s = <<>> THEN acc
    ELSE IF Head(s) = "_" THEN digits_value(Tail(s), acc)
    ELSE digits_value(Tail(s), acc * 10 + DigitVal(Head(s)))

\* digits, single underscores allowed between digits
IsDigitString(b) ==
    /\ b # <<>>
    /\ IsDigit(b[1])
    /\ IsDigit(b[Len(b)])
    /\ \A i \in 1..Len(b) : IsDigit(b[i]) \/ b[i] = "_"
    /\ \A i \in 1..(Len(b) - 1) : ~(b[i] = "_" /\ b[i + 1] = "_")

RECURSIVE int_lstrip(_)
int_lstrip(s) == IF s = <<>> THEN s
                 ELSE IF IsIntSpace(Head(s)) THEN int_lstrip(Tail(s)) ELSE s

RECURSIVE int_rstrip(_)
int_rstrip(s) == IF s = <<>> THEN s
                 ELSE IF IsIntSpace(s[Len(s)])
                      THEN int_rstrip(SubSeq(s, 1, Len(s) - 1)) ELSE s

\* int(text): [ok |-> FALSE] stands for ValueError
int(s) ==
    LET t    == int_rstrip(int_lstrip(s))
        sgn  == t # <<>> /\ Head(t) \in {"+", "-"}
        body == IF sgn THEN Tail(t) ELSE t
        neg  == sgn /\ Head(t) = "-"
    IN  IF IsDigitString(body)
        THEN [ok |-> TRUE,
              val |-> IF neg THEN 0 - digits_value(body, 0) ELSE digits_value(body, 0)]
        ELSE [ok |-> FALSE, val |-> 0]

RECURSIVE split_dash(_, _)
split_dash(s, cur) ==
    IF s = <<>> THEN <<cur>>
    ELSE IF Head(s) = "-" THEN <<cur>> \o split_dash(Tail(s), <<>>)
    ELSE split_dash(Tail(s), Append(cur, Head(s)))

AllDigits(p) == p # <<>> /\ \A i \in 1..Len(p) : IsDigit(p[i])

days_in_month(y, m) ==
    IF m \in {4, 6, 9, 11} THEN 30
    ELSE IF m = 2
         THEN (IF (y % 4 = 0 /\ y % 100 # 0) \/ y % 400 = 0 THEN 29 ELSE 28)
         ELSE 31

\* variant: every text is taken for a date
strptime_ok_any(s) == TRUE

\* the text matched by %d of _strptime: 3[0-1]|[1-2]\d|0[1-9]|[1-9]| [1-9];
\* a blank may stand before a one-digit day
day_digits(p) ==
    IF Len(p) = 2 /\ p[1] = " " /\ IsDigit(p[2]) /\ p[2] # "0" THEN <<p[2]>>
    ELSE p

\* datetime.strptime(text, "%Y-%m-%d") succeeds
strptime_ok(s) ==
    LET parts == split_dash(s, <<>>) IN
    /\ Len(parts) = 3
    /\ AllDigits(parts[1]) /\ Len(parts[1]) = 4
    /\ AllDigits(parts[2]) /\ Len(parts[2]) \in {1, 2}
    /\ AllDigits(day_digits(parts[3])) /\ Len(parts[3]) \in {1, 2}
    /\ LET y == digits_value(parts[1], 0)
           m == digits_value(parts[2], 0)
           d == digits_value(day_digits(parts[3]), 0)
       IN  y >= 1 /\ m \in 1..12 /\ d >= 1 /\ d <= days_in_month(y, m)


(***************************************************************************)
(* State                                                                   *)
(***************************************************************************)
VARIABLES
    skills,            \* solo_leveling.db: rows of table skills
    sessions,          \* solo_leveling.db: rows of table sessions, by id
    session_updates,   \* solo_leveling.db: rows of table session_updates, by id
    data_file,         \* leveling_data.json of v1
    app,               \* the running program: "none", "v1", "v2", "v3"
    stage,             \* where the running program waits for the user
    is_first_run,      \* self.is_first_run of v2 / v3
    local,             \* locals of the text-menu session in progress
    skill_levels,      \* self.skill_levels of v1
    update_entries,    \* self.update_entries of v3: entry text and cached level
    custom_date_var,   \* self.custom_date_var of v3
    welcome_pending,   \* v3: root.after(1000, show_crystal_ball_welcome) not yet run
    out                \* what the last handler reported to the user

vars == <<skills, sessions, session_updates, data_file, app, stage, is_first_run,
          local, skill_levels, update_entries, custom_date_var, welcome_pending, out>>

db_vars == <<skills, sessions, session_updates>>
v3_vars == <<update_entries, custom_date_var, welcome_pending>>

NoNotes == "NULL"
CrystalNotes == "Initial stat assessment using the mystical crystal ball"

\* the times of day datetime.now() can return.  The wall clock is not the
\* program's: a later call can return the same time of day (within one
\* second) or an earlier one (another day, or the clock was set back)
Now == {1, 2}

(***************************************************************************)
(* Store adapter (SQLite)                                                  *)
(***************************************************************************)
SkillRow(k, level) == [attribute |-> k[1], skill_name |-> k[2], current_level |-> level]

\* INSERT OR IGNORE of one row per taxonomy skill when the table is empty
init_database(rows) ==
    IF Cardinality(rows) = 0 THEN {SkillRow(k, 1) : k \in SkillKeys} ELSE rows

\* variant: the sessions are not looked at
check_first_run_progress_only(rows, sess) ==
    LET has_progress == Cardinality({r \in rows : r.current_level > 1}) > 0
    IN  ~has_progress

check_first_run(rows, sess) ==
    LET has_progress == Cardinality({r \in rows : r.current_level > 1}) > 0
        has_sessions == Len(sess) > 0
    IN  ~(has_progress \/ has_sessions)

\* dictionary attribute -> skill -> level built from the rows
get_current_skills(rows) ==
    [k \in {<<r.attribute, r.skill_name>> : r \in rows} |->
        (CHOOSE r \in rows : r.attribute = k[1] /\ r.skill_name = k[2]).current_level]

\* current_skills.get(attribute, {}).get(skill, 1)
get_level(current_skills, k) ==
    IF k \in DOMAIN current_skills THEN current_skills[k] ELSE 1

\* variant: a stored level is never lowered
update_skill_row_max(rows, attribute, skill, level) ==
    {IF r.attribute = attribute /\ r.skill_name = skill /\ r.current_level < level
        THEN [r EXCEPT !.current_level = level] ELSE r : r \in rows}

\* UPDATE skills SET current_level = ? WHERE attribute = ? AND skill_name = ?
update_skill_row(rows, attribute, skill, level) ==
    {IF r.attribute = attribute /\ r.skill_name = skill
        THEN [r EXCEPT !.current_level = level] ELSE r : r \in rows}

UpdateRow(session_id, u) ==
    [session_id |-> session_id, attribute |-> u.attribute, skill_name |-> u.skill,
     old_level |-> u.old_level, new_level |-> u.new_level, gain |-> u.gain]

RECURSIVE write_updates_rows_only(_, _, _)
\* variant: the UPDATE of table skills is missing
write_updates_rows_only(db, session_id, updates) ==
    IF updates = <<>> THEN db
    ELSE LET u == Head(updates) IN
         write_updates_rows_only(
            [db EXCEPT
                !.session_updates = Append(db.session_updates, UpdateRow(session_id, u))],
            session_id, Tail(updates))

RECURSIVE write_updates(_, _, _)
\* the loop "for update in updates: UPDATE skills ...; INSERT INTO session_updates"
write_updates(db, session_id, updates) ==
    IF updates = <<>> THEN db
    ELSE LET u == Head(updates) IN
         write_updates(
            [db EXCEPT
                !.skills = update_skill_row(db.skills, u.attribute, u.skill, u.new_level),
                !.session_updates = Append(db.session_updates, UpdateRow(session_id, u))],
            session_id, Tail(updates))

\* variant: the levels of the skills the session does not name are reset to 1
save_update_session_reset(db, timestamp, updates, total_gains) ==
    LET session_id == Len(db.sessions) + 1
        row == [id |-> session_id, session_timestamp |-> timestamp,
                total_gains |-> total_gains, session_type |-> "skill_update",
                notes |-> NoNotes]
    IN  write_updates([db EXCEPT !.sessions = Append(db.sessions, row),
                                 !.skills = {[r EXCEPT !.current_level = 1] : r \in db.skills}],
                      session_id, updates)

\* one transaction: INSERT INTO sessions, the loop, conn.commit()
save_update_session(db, timestamp, updates, total_gains) ==
    LET session_id == Len(db.sessions) + 1
        row == [id |-> session_id, session_timestamp |-> timestamp,
                total_gains |-> total_gains, session_type |-> "skill_update",
                notes |-> NoNotes]
    IN  write_updates([db EXCEPT !.sessions = Append(db.sessions, row)],
                      session_id, updates)

RECURSIVE sum_gains_levels(_)
\* variant: the levels are summed, not the gains
sum_gains_levels(updates) ==
    IF updates = <<>> THEN 0
    ELSE Head(updates).new_level + sum_gains_levels(Tail(updates))

RECURSIVE sum_gains(_)
sum_gains(updates) ==
    IF updates = <<>> THEN 0 ELSE Head(updates).gain + sum_gains(Tail(updates))

RECURSIVE baseline_updates(_)
\* save_crystal_ball_assessment writes (session_id, attribute, skill, 1, level, level - 1)
baseline_updates(updates) ==
    IF updates = <<>> THEN <<>>
    ELSE <<[Head(updates) EXCEPT !.old_level = 1, !.gain = Head(updates).new_level - 1]>>
            \o baseline_updates(Tail(updates))

\* variant: the assessment starts a new history
save_crystal_ball_assessment_reset(db, timestamp, updates) ==
    LET row == [id |-> 1, session_timestamp |-> timestamp,
                total_gains |-> sum_gains(updates),
                session_type |-> "crystal_ball_assessment", notes |-> CrystalNotes]
    IN  write_updates([db EXCEPT !.sessions = <<row>>, !.session_updates = <<>>],
                      1, baseline_updates(updates))

\* v2: total from session_data, rows from the assessment dictionary
save_crystal_ball_assessment(db, timestamp, updates) ==
    LET session_id == Len(db.sessions) + 1
        row == [id |-> session_id, session_timestamp |-> timestamp,
                total_gains |-> sum_gains(updates),
                session_type |-> "crystal_ball_assessment", notes |-> CrystalNotes]
    IN  write_updates([db EXCEPT !.sessions = Append(db.sessions, row)],
                      session_id, baseline_updates(updates))

DB == [skills |-> skills, sessions |-> sessions, session_updates |-> session_updates]

SetDB(db) ==
    /\ skills' = db.skills
    /\ sessions' = db.sessions
    /\ session_updates' = db.session_updates

(***************************************************************************)
(* Leveling calculator and rollups                                         *)
(***************************************************************************)
\* level = int(1 + 99 / (1 + exp(-10 * (x - 0.5)))) is at least i + 1 exactly
\* when x >= 0.5 + ln(i / (99 - i)) / 10; entry i is that bound times
\* LevelScale, rounded up.  Entry 99 is the point from which the double
\* 1 / (1 + exp(...)) is 1.0, so that the level is 100.  The comparison below
\* agrees with the floating-point code for max_points = 100, 200, ..., 1100.
LevelScale == 100000

LevelThresholds ==
    << 4151, 11185, 15343, 18325, 20662, 22592, 24242, 25686, 26975,
       28140, 29206, 30190, 31107, 31965, 32773, 33538, 34265, 34960,
       35625, 36263, 36879, 37473, 38048, 38606, 39149, 39677, 40192,
       40696, 41189, 41671, 42145, 42611, 43069, 43520, 43965, 44404,
       44838, 45268, 45693, 46114, 46532, 46947, 47359, 47769, 48177,
       48584, 48990, 49394, 49798, 50203, 50607, 51011, 51417, 51824,
       52232, 52642, 53054, 53469, 53887, 54308, 54733, 55163, 55597,
       56036, 56481, 56932, 57390, 57856, 58330, 58812, 59305, 59809,
       60324, 60852, 61395, 61953, 62528, 63122, 63738, 64376, 65041,
       65736, 66463, 67228, 68036, 68894, 69811, 70795, 71861, 73026,
       74315, 75759, 77409, 79339, 81676, 84658, 88816, 95850, 417369 >>

Returned(level) == [error |-> "none", level |-> level]
Raised(error) == [error |-> error, level |-> 0]

\* variant: the floor branch for total_points <= 0 is missing
sigmoid_level_calculation_no_floor(total_points, max_points) ==
    IF max_points = 0 THEN Raised("ZeroDivisionError")
    ELSE LET level == 1 + Cardinality({i \in 1..Len(LevelThresholds) :
                             total_points * LevelScale >= LevelThresholds[i] * max_points})
         IN  Returned(IF level < 100 THEN level ELSE 100)

\* variant: the points wrap around at max_points
sigmoid_level_calculation_wrapped(total_points, max_points) ==
    IF total_points <= 0 THEN Returned(1)
    ELSE IF max_points = 0 THEN Raised("ZeroDivisionError")
    ELSE LET level == 1 + Cardinality({i \in 1..Len(LevelThresholds) :
                             (total_points % max_points) * LevelScale
                                 >= LevelThresholds[i] * max_points})
         IN  Returned(IF level < 100 THEN level ELSE 100)

\* variant: a straight line through (max_points, 100) that is not capped
sigmoid_level_calculation_linear(total_points, max_points) ==
    IF total_points <= 0 THEN Returned(1)
    ELSE IF max_points = 0 THEN Raised("ZeroDivisionError")
    ELSE Returned(1 + (total_points * 99) \div max_points)

\* variant: the scaled value is rounded up, not truncated
sigmoid_level_calculation_ceil(total_points, max_points) ==
    IF total_points <= 0 THEN Returned(1)
    ELSE IF max_points = 0 THEN Raised("ZeroDivisionError")
    ELSE LET level == 2 + Cardinality({i \in 1..Len(LevelThresholds) :
                             total_points * LevelScale >= LevelThresholds[i] * max_points})
         IN  Returned(IF level < 100 THEN level ELSE 100)

\* total_points and max_points are integers, max_points >= 0
sigmoid_level_calculation(total_points, max_points) ==
    IF total_points <= 0 THEN Returned(1)
    ELSE IF max_points = 0 THEN Raised("ZeroDivisionError")
    ELSE LET level == 1 + Cardinality({i \in 1..Len(LevelThresholds) :
                             total_points * LevelScale >= LevelThresholds[i] * max_points})
         IN  Returned(IF level < 100 THEN level ELSE 100)

RECURSIVE SumLevels(_)
SumLevels(rows) ==
    IF rows = {} THEN 0
    ELSE LET r == CHOOSE x \in rows : TRUE IN r.current_level + SumLevels(rows \ {r})

\* SELECT SUM(current_level) FROM skills WHERE attribute = ?  "or 0"
total_skill_points(rows, attribute) ==
    SumLevels({r \in rows : r.attribute = attribute})

calculate_attribute_level(rows, attribute) ==
    sigmoid_level_calculation(total_skill_points(rows, attribute),
                              Len(attributes[attribute]) * 100).level

RECURSIVE total_attribute_points(_, _)
\* sum(self.calculate_attribute_level(attr) for attr in self.attributes)
total_attribute_points(rows, i) ==
    IF i > Len(AttributeOrder) THEN 0
    ELSE calculate_attribute_level(rows, AttributeOrder[i])
            + total_attribute_points(rows, i + 1)

\* v2
calculate_overall_level(rows) ==
    sigmoid_level_calculation(total_attribute_points(rows, 1),
                              Len(AttributeOrder) * 100).level

\* v3: "Return raw sum for display as X/500"
calculate_overall_level_v3(rows) == total_attribute_points(rows, 1)

RECURSIVE sum_values(_, _, _)
\* v1: sum(self.skill_levels[attribute].values())
sum_values(levels, attribute, j) ==
    IF j > Len(attributes[attribute]) THEN 0
    ELSE levels[<<attribute, attributes[attribute][j]>>]
            + sum_values(levels, attribute, j + 1)

calculate_attribute_level_v1(levels, attribute) ==
    sigmoid_level_calculation(sum_values(levels, attribute, 1),
                              Len(attributes[attribute]) * 100).level

RECURSIVE total_attribute_points_v1(_, _)
total_attribute_points_v1(levels, i) ==
    IF i > Len(AttributeOrder) THEN 0
    ELSE calculate_attribute_level_v1(levels, AttributeOrder[i])
            + total_attribute_points_v1(levels, i + 1)

calculate_overall_level_v1(levels) ==
    sigmoid_level_calculation(total_attribute_points_v1(levels, 1),
                              Len(AttributeOrder) * 100).level

Stats(overall_level, attribute_levels, skill_lines) ==
    [overall_level |-> overall_level, attribute_levels |-> attribute_levels,
     skill_lines |-> skill_lines]

\* v2: the skills of an attribute are listed "if attribute_name in skills"
display_current_stats(rows) ==
    LET current == get_current_skills(rows) IN
    Stats(calculate_overall_level(rows),
          [a \in DOMAIN attributes |-> calculate_attribute_level(rows, a)],
          [k \in {x \in SkillKeys : \E y \in DOMAIN current : y[1] = x[1]} |->
              get_level(current, k)])

\* v3: refresh_all_data shows the overall level, refresh_stats_display the rest
refresh_stats_display(rows) ==
    LET current == get_current_skills(rows) IN
    Stats(calculate_overall_level_v3(rows),
          [a \in DOMAIN attributes |-> calculate_attribute_level(rows, a)],
          [k \in SkillKeys |-> get_level(current, k)])

\* v1
display_current_stats_v1(levels) ==
    Stats(calculate_overall_level_v1(levels),
          [a \in DOMAIN attributes |-> calculate_attribute_level_v1(levels, a)],
          levels)

(***************************************************************************)
(* History readers                                                         *)
(***************************************************************************)
\* LIMIT 10 of v2, sessions[-10:] of v1
HistoryLimit == 10

\* order of the characters of a stored timestamp: " " < "-" < digits < "T"
CharCode(c) ==
    IF c = " " THEN 0 ELSE IF c = "-" THEN 1 ELSE IF c = "T" THEN 12
    ELSE DigitVal(c) + 2

RECURSIVE str_less(_, _)
\* s < t as strings
str_less(s, t) ==
    IF t = <<>> THEN FALSE
    ELSE IF s = <<>> THEN TRUE
    ELSE IF Head(s) # Head(t) THEN CharCode(Head(s)) < CharCode(Head(t))
    ELSE str_less(Tail(s), Tail(t))

\* the stored text is date, "T", time of day; the tick stands for the time
\* of day, whatever the day it was read on
timestamp_less(a, b) ==
    IF a.date = b.date THEN a.tick < b.tick
    ELSE str_less(Append(a.date, "T"), Append(b.date, "T"))

\* datetime.fromisoformat(timestamp) succeeds: month and day are two digits
fromisoformat_ok(timestamp) ==
    LET parts == split_dash(timestamp.date, <<>>) IN
    /\ strptime_ok(timestamp.date)
    /\ Len(parts[2]) = 2
    /\ Len(parts[3]) = 2 /\ AllDigits(parts[3])

RECURSIVE order_by_timestamp_desc(_, _)
\* ORDER BY session_timestamp DESC over the rows with the indices idxs; SQL
\* leaves the order of rows with equal timestamps open, SQLite returns them
\* in the order of their ids
order_by_timestamp_desc(rows, idxs) ==
    IF idxs = {} THEN <<>>
    ELSE LET i == CHOOSE x \in idxs : \A y \in idxs \ {x} :
                      \/ timestamp_less(rows[y].session_timestamp,
                                        rows[x].session_timestamp)
                      \/ /\ ~timestamp_less(rows[x].session_timestamp,
                                            rows[y].session_timestamp)
                         /\ x < y
         IN  <<rows[i]>> \o order_by_timestamp_desc(rows, idxs \ {i})

HistoryLine(timestamp, total_gains, session_type, notes) ==
    [timestamp |-> timestamp, total_gains |-> total_gains,
     session_type |-> session_type, notes |-> notes]

RECURSIVE print_history(_, _)
\* the loop that prints the fetched rows; fromisoformat may raise ValueError
print_history(fetched, shown) ==
    IF fetched = <<>> THEN [error |-> "none", shown |-> shown]
    ELSE IF ~fromisoformat_ok(Head(fetched).session_timestamp)
    THEN [error |-> "ValueError", shown |-> shown]
    ELSE print_history(Tail(fetched),
                       Append(shown, HistoryLine(Head(fetched).session_timestamp,
                                                 Head(fetched).total_gains,
                                                 Head(fetched).session_type,
                                                 Head(fetched).notes)))

\* v2
view_history(sess) ==
    LET ordered == order_by_timestamp_desc(sess, 1..Len(sess))
        fetched == IF Len(ordered) > HistoryLimit
                   THEN SubSeq(ordered, 1, HistoryLimit) ELSE ordered
    IN  print_history(fetched, <<>>)

RECURSIVE print_history_v1(_, _)
\* v1: total gains are summed from the updates of the session
print_history_v1(last, shown) ==
    IF last = <<>> THEN [error |-> "none", shown |-> shown]
    ELSE print_history_v1(Tail(last),
                          Append(shown, HistoryLine(Head(last).timestamp,
                                                    sum_gains(Head(last).updates),
                                                    "NULL", "NULL")))

\* v1: a missing file or broken JSON text reads as no sessions, bytes that
\* are no text raise UnicodeDecodeError
view_history_v1(f) ==
    LET sess == IF f.status = "ok" THEN f.sessions ELSE <<>>
        last == IF Len(sess) > HistoryLimit
                THEN SubSeq(sess, Len(sess) - HistoryLimit + 1, Len(sess)) ELSE sess
    IN  IF f.status = "undecodable"
        THEN [error |-> "UnicodeDecodeError", shown |-> <<>>]
        ELSE print_history_v1(last, <<>>)

(***************************************************************************)
(* Validation of one requested level                                       *)
(***************************************************************************)
\* variant: the +10 rule is missing
check_level_no_delta(new_level, current_level) ==
    IF new_level < current_level THEN "decrease"
    ELSE IF new_level > 100 THEN "ceiling"
    ELSE "ok"

\* variant: the decrease rule is missing
check_level_no_decrease(new_level, current_level) ==
    IF new_level > current_level + 10 THEN "delta"
    ELSE IF new_level > 100 THEN "ceiling"
    ELSE "ok"

\* variant: the +10 rule allows 11
check_level_delta_11(new_level, current_level) ==
    IF new_level < current_level THEN "decrease"
    ELSE IF new_level > current_level + 11 THEN "delta"
    ELSE IF new_level > 100 THEN "ceiling"
    ELSE "ok"

\* variant: the ceiling rule is missing
check_level_no_ceiling(new_level, current_level) ==
    IF new_level < current_level THEN "decrease"
    ELSE IF new_level > current_level + 10 THEN "delta"
    ELSE "ok"

\* the three business rules, in the order of the code
check_level(new_level, current_level) ==
    IF new_level < current_level THEN "decrease"
    ELSE IF new_level > current_level + 10 THEN "delta"
    ELSE IF new_level > 100 THEN "ceiling"
    ELSE "ok"

\* v2 update prompt: one pass of the "while True" loop
update_input_v2(user_text, current_level) ==
    LET user_input == strip(user_text) IN
    IF user_input = Blank THEN [verdict |-> "keep", new_level |-> current_level]
    ELSE IF ~int(user_input).ok THEN [verdict |-> "invalid", new_level |-> current_level]
    ELSE [verdict |-> check_level(int(user_input).val, current_level),
          new_level |-> int(user_input).val]

\* variant: the range check of the prompt is missing
assess_input_v2_no_range(level_text) ==
    LET level_input == strip(level_text) IN
    IF level_input = Blank THEN [verdict |-> "keep", level |-> 1]
    ELSE IF ~int(level_input).ok THEN [verdict |-> "invalid", level |-> 1]
    ELSE [verdict |-> "ok", level |-> int(level_input).val]

\* v2 assessment prompt: one pass of the "while True" loop
assess_input_v2(level_text) ==
    LET level_input == strip(level_text) IN
    IF level_input = Blank THEN [verdict |-> "keep", level |-> 1]
    ELSE IF ~int(level_input).ok THEN [verdict |-> "invalid", level |-> 1]
    ELSE IF int(level_input).val < 1 \/ int(level_input).val > 100
         THEN [verdict |-> "range", level |-> int(level_input).val]
    ELSE [verdict |-> "ok", level |-> int(level_input).val]

\* variant: an empty entry is parsed like any other text
update_input_v3_blank_invalid(var_text, current_level) ==
    LET new_value == strip(var_text) IN
    IF ~int(new_value).ok THEN [verdict |-> "invalid", new_level |-> current_level]
    ELSE [verdict |-> check_level(int(new_value).val, current_level),
          new_level |-> int(new_value).val]

\* v3: one entry of the update form
update_input_v3(var_text, current_level) ==
    LET new_value == strip(var_text) IN
    IF new_value = Blank THEN [verdict |-> "keep", new_level |-> current_level]
    ELSE IF ~int(new_value).ok THEN [verdict |-> "invalid", new_level |-> current_level]
    ELSE [verdict |-> check_level(int(new_value).val, current_level),
          new_level |-> int(new_value).val]

Rejected(verdict) == verdict \in {"invalid", "decrease", "delta", "ceiling", "range"}

Update(k, old_level, new_level) ==
    [attribute |-> k[1], skill |-> k[2], old_level |-> old_level,
     new_level |-> new_level, gain |-> new_level - old_level]

TraceEntry(k, text, current_level, verdict) ==
    [attribute |-> k[1], skill |-> k[2], text |-> text,
     current |-> current_level, verdict |-> verdict]

\* what the text menus print on a rejected answer to an update prompt, as
\* the pieces of the printed text (the same lines in sl.py:135-150)
update_message_v2(verdict) ==
    CASE verdict = "decrease" -> <<"Cannot decrease levels!">>
      [] verdict = "delta"    -> <<"Maximum increase of 10 levels per session!">>
      [] verdict = "ceiling"  -> <<"Maximum level is 100!">>
      [] verdict = "invalid"  -> <<"Please enter a valid number or press Enter to skip">>
      [] OTHER                -> <<>>

\* the text of the error box of the update form, as the pieces of the f-string
update_message_v3(skill, verdict) ==
    CASE verdict = "decrease" -> <<"Cannot decrease ", skill, " level!">>
      [] verdict = "delta"    -> <<"Max +10 increase for ", skill, "!">>
      [] verdict = "ceiling"  -> <<"Max level is 100 for ", skill, "!">>
      [] verdict = "invalid"  -> <<"Invalid level for ", skill, "!">>
      [] OTHER                -> <<>>

\* one judged value of an update with the message shown for it
UpdateEntry(k, text, current_level, verdict, message) ==
    [attribute |-> k[1], skill |-> k[2], text |-> text,
     current |-> current_level, verdict |-> verdict, message |-> message]

(***************************************************************************)
(* Common shapes                                                            *)
(***************************************************************************)
Committed == Len(sessions) + Len(data_file.sessions)

\* a session may still be started within the bound; the database and the
\* file of v1 are separate stores, a behaviour commits to one of them
Budget == Committed < MaxSessions /\ data_file.sessions = <<>>
FileBudget == Committed < MaxSessions /\ sessions = <<>>

Timestamp(date, tick) == [date |-> date, tick |-> tick]

NoLocal == [idx |-> 0, timestamp |-> Timestamp(Blank, 0),
            current_skills |-> get_current_skills({}),
            session_updates |-> <<>>, total_gains |-> 0, welcome |-> FALSE]

DefaultLevels == [k \in SkillKeys |-> 1]

NoEntries == [k \in SkillKeys |-> [var |-> Blank, current |-> 1]]

Report(op, result, trace) == [op |-> op, result |-> result, trace |-> trace]

EmptyFile == [status |-> "missing", skill_levels |-> get_current_skills({}),
              sessions |-> <<>>]

Init ==
    /\ skills = {}
    /\ sessions = <<>>
    /\ session_updates = <<>>
    /\ data_file = EmptyFile
    /\ app = "none"
    /\ stage = "off"
    /\ is_first_run = FALSE
    /\ local = NoLocal
    /\ skill_levels = DefaultLevels
    /\ update_entries = NoEntries
    /\ custom_date_var = Blank
    /\ welcome_pending = FALSE
    /\ out = Report("none", "none", <<>>)

\* the process ends: its memory is gone, the files stay
ProcessGone ==
    /\ app' = "none"
    /\ stage' = "off"
    /\ is_first_run' = FALSE
    /\ local' = NoLocal
    /\ skill_levels' = DefaultLevels
    /\ update_entries' = NoEntries
    /\ custom_date_var' = Blank
    /\ welcome_pending' = FALSE

(***************************************************************************)
(* v2: src/slv2.py                                                          *)
(***************************************************************************)
\* SoloLevelingSystem(): init_database, check_first_run, then main_menu
V2Start ==
    /\ app = "none"
    /\ app' = "v2"
    /\ skills' = init_database(skills)
    /\ is_first_run' = check_first_run(skills', sessions)
    /\ stage' = IF is_first_run' THEN "welcome" ELSE "menu"
    /\ out' = Report("v2_start", "ok", <<>>)
    /\ UNCHANGED <<sessions, session_updates, data_file, local, skill_levels, v3_vars>>

\* crystal_ball_assessment up to its first prompt
BeginAssessmentV2(welcome, now) ==
    /\ stage' = "assess"
    /\ local' = [NoLocal EXCEPT !.idx = 1, !.timestamp = Timestamp(TodayText, now),
                                !.welcome = welcome]

\* main_menu, first-run question "Use Crystal Ball Assessment? (y/n)"
V2Welcome(choice, now) ==
    /\ app = "v2" /\ stage = "welcome"
    /\ IF choice = "y"
       THEN /\ Budget
            /\ BeginAssessmentV2(TRUE, now)
            /\ out' = Report("v2_welcome", "assess", <<>>)
       ELSE /\ stage' = "menu"
            /\ local' = local
            /\ out' = Report("v2_welcome", "declined", <<>>)
    /\ UNCHANGED <<db_vars, data_file, app, is_first_run, skill_levels, v3_vars>>

\* main_menu choice "1": warning, confirmation, crystal_ball_assessment
V2MenuAssessment(confirm, now) ==
    /\ app = "v2" /\ stage = "menu"
    /\ IF confirm = "y"
       THEN /\ Budget
            /\ BeginAssessmentV2(FALSE, now)
            /\ out' = Report("v2_menu_assessment", "assess", <<>>)
       ELSE /\ UNCHANGED <<stage, local>>
            /\ out' = Report("v2_menu_assessment", "declined", <<>>)
    /\ UNCHANGED <<db_vars, data_file, app, is_first_run, skill_levels, v3_vars>>

\* crystal_ball_assessment: one answer to the prompt of skill local.idx;
\* the last accepted answer runs save_crystal_ball_assessment
V2AssessInput(text) ==
    /\ app = "v2" /\ stage = "assess"
    /\ LET k == SkillOrder[local.idx]
           r == assess_input_v2(text)
           tr == <<TraceEntry(k, text, 1, r.verdict)>>
           ups == Append(local.session_updates, Update(k, 1, r.level))
       IN  IF Rejected(r.verdict)
           THEN /\ out' = Report("v2_assessment", "retry", tr)
                /\ UNCHANGED <<db_vars, stage, local, is_first_run>>
           ELSE IF local.idx < NumSkills
           THEN /\ out' = Report("v2_assessment", "accepted", tr)
                /\ local' = [local EXCEPT !.idx = local.idx + 1, !.session_updates = ups]
                /\ UNCHANGED <<db_vars, stage, is_first_run>>
           ELSE /\ SetDB(save_crystal_ball_assessment(DB, local.timestamp, ups))
                /\ out' = Report("v2_assessment", "saved", tr)
                /\ stage' = "menu"
                /\ is_first_run' = IF local.welcome THEN FALSE ELSE is_first_run
                /\ local' = NoLocal
    /\ UNCHANGED <<data_file, app, skill_levels, v3_vars>>

\* update_skills_session up to its first skill prompt: the custom date
V2MenuUpdate(date_text, now) ==
    /\ app = "v2" /\ stage = "menu"
    /\ Budget
    /\ LET custom_date == strip(date_text)
           session_timestamp ==
               IF custom_date # Blank /\ strptime_ok(custom_date)
               THEN Timestamp(custom_date, now)
               ELSE Timestamp(TodayText, now)
       IN  /\ local' = [NoLocal EXCEPT !.idx = 1, !.timestamp = session_timestamp,
                                       !.current_skills = get_current_skills(skills)]
           /\ out' = Report("v2_update",
                            IF custom_date # Blank /\ ~strptime_ok(custom_date)
                            THEN "invalid_date" ELSE "begin", <<>>)
    /\ stage' = "update"
    /\ UNCHANGED <<db_vars, data_file, app, is_first_run, skill_levels, v3_vars>>

\* update_skills_session: one answer to the prompt of skill local.idx;
\* the last accepted answer runs save_update_session when something changed
V2UpdateInput(text) ==
    /\ app = "v2" /\ stage = "update"
    /\ LET k == SkillOrder[local.idx]
           current_level == get_level(local.current_skills, k)
           r == update_input_v2(text, current_level)
           tr == <<UpdateEntry(k, text, current_level, r.verdict,
                               update_message_v2(r.verdict))>>
           changed == r.new_level > current_level
           ups == IF changed
                  THEN Append(local.session_updates, Update(k, current_level, r.new_level))
                  ELSE local.session_updates
           total == IF changed THEN local.total_gains + (r.new_level - current_level)
                    ELSE local.total_gains
       IN  IF Rejected(r.verdict)
           THEN /\ out' = Report("v2_update", "retry", tr)
                /\ UNCHANGED <<db_vars, stage, local>>
           ELSE IF local.idx < NumSkills
           THEN /\ out' = Report("v2_update", "accepted", tr)
                /\ local' = [local EXCEPT !.idx = local.idx + 1,
                                          !.session_updates = ups, !.total_gains = total]
                /\ UNCHANGED <<db_vars, stage>>
           ELSE /\ IF ups # <<>>
                   THEN /\ SetDB(save_update_session(DB, local.timestamp, ups, total))
                        /\ out' = Report("v2_update", "saved", tr)
                   ELSE /\ UNCHANGED db_vars
                        /\ out' = Report("v2_update", "no_changes", tr)
                /\ stage' = "menu"
                /\ local' = NoLocal
    /\ UNCHANGED <<data_file, app, is_first_run, skill_levels, v3_vars>>

\* main_menu choices "2" and "4": display_current_stats, view_history; an
\* exception of view_history ends the program
V2Read(op) ==
    /\ app = "v2" /\ stage = "menu"
    /\ LET h == view_history(sessions) IN
       IF op = "v2_display_current_stats"
       THEN /\ out' = Report(op, "shown", <<display_current_stats(skills)>>)
            /\ UNCHANGED <<app, stage, is_first_run, local, skill_levels, v3_vars>>
       ELSE IF h.error = "none"
       THEN /\ out' = Report(op, "shown", h.shown)
            /\ UNCHANGED <<app, stage, is_first_run, local, skill_levels, v3_vars>>
       ELSE /\ out' = Report(op, h.error, h.shown)
            /\ ProcessGone
    /\ UNCHANGED <<db_vars, data_file>>

\* main_menu choice "5"
V2Exit ==
    /\ app = "v2" /\ stage = "menu"
    /\ ProcessGone
    /\ out' = Report("v2_exit", "ok", <<>>)
    /\ UNCHANGED <<db_vars, data_file>>

(***************************************************************************)
(* v3: src/slv3.py                                                          *)
(***************************************************************************)
\* variant: the cached levels are left as they are
refresh_all_data_stale(entries, rows) == entries

\* refresh_all_data: the cached level of every entry is re-read from the store
refresh_all_data(entries, rows) ==
    [k \in SkillKeys |->
        [entries[k] EXCEPT !.current = get_level(get_current_skills(rows), k)]]

\* SoloLevelingGUI(): init_database, check_first_run, setup_update_interface
V3Start ==
    /\ app = "none"
    /\ app' = "v3"
    /\ skills' = init_database(skills)
    /\ is_first_run' = check_first_run(skills', sessions)
    /\ update_entries' =
          [k \in SkillKeys |->
              [var |-> Blank, current |-> get_level(get_current_skills(skills'), k)]]
    /\ custom_date_var' = Blank
    /\ welcome_pending' = is_first_run'
    /\ stage' = "main"
    /\ out' = Report("v3_start", "ok", <<>>)
    /\ UNCHANGED <<sessions, session_updates, data_file, local, skill_levels>>

FormBlank ==
    /\ \A k \in SkillKeys : update_entries[k].var = Blank
    /\ custom_date_var = Blank

\* what can stand above the main window and take the user's input in its
\* place: the assessment dialog (grab_set), or a handler that committed and
\* waits in its message box, "Success!" of process_skill_updates or
\* "Assessment Complete!" of save_crystal_assessment
Opened == {"dialog", "saved_box", "assessed_box"}

\* the timer runs show_crystal_ball_welcome whatever stands above the main
\* window, so its dialog can open over one of these
Over(under, top) == under \o "/" \o top

Push(st, top) == IF st = "main" THEN top ELSE Over(st, top)

Stacked(st) == \E under, top \in Opened : st = Over(under, top)

\* the window that takes the user's input
Top(st) ==
    IF Stacked(st)
    THEN CHOOSE top \in Opened : \E under \in Opened : st = Over(under, top)
    ELSE st

\* what stands under the top window
Under(st) ==
    IF Stacked(st)
    THEN CHOOSE under \in Opened : \E top \in Opened : st = Over(under, top)
    ELSE "main"

\* what is left when the window w is gone
Without(st, w) == IF Top(st) = w THEN Under(st) ELSE Top(st)

\* messagebox.showinfo can return to the handler that waits in the box: the
\* box runs the event loop inside the call, so a handler started from that
\* loop (the timer's show_crystal_ball_welcome, a button of the dialog it
\* opened) runs to its end first, and a box opened by such a handler returns
\* before the box under it.  The dialog is a window without a wait of its
\* own (show_crystal_ball_dialog returns at once), it holds no call back
Returns(st, box) == Top(st) = box \/ (Under(st) = box /\ Top(st) = "dialog")

\* a dialog is explored while the sessions of the open dialogs fit the bound;
\* texts typed into the update form are left behind one dialog, on a store
\* that holds no session yet
DialogBudget ==
    /\ Committed + (IF stage = "dialog" THEN 1 ELSE 0)
          + (IF FormBlank \/ stage = "saved_box" THEN 1 ELSE 2) <= MaxSessions
    /\ FormBlank \/ stage = "saved_box" \/ (Committed = 0 /\ stage = "main")
    /\ data_file.sessions = <<>>

\* texts are typed into the update form while the store holds at most one
\* session: the form saves the first or the second session of a store
FormBudget == Budget /\ Len(sessions) <= 1

\* the timer of the welcome is set to 1000 ms: it has run before a second
\* session of the same run is saved
TimerBudget == welcome_pending => Committed = 0

\* show_crystal_ball_welcome, run by the timer set in __init__: it asks its
\* question over whatever is open and opens the dialog there
V3Welcome(result) ==
    /\ app = "v3" /\ welcome_pending
    /\ welcome_pending' = FALSE
    /\ IF result
       THEN /\ DialogBudget
            /\ stage' = Push(stage, "dialog")
            /\ out' = Report("v3_welcome", "assess", <<>>)
       ELSE /\ stage' = stage
            /\ out' = Report("v3_welcome", "declined", <<>>)
    /\ UNCHANGED <<db_vars, data_file, app, is_first_run, local, skill_levels,
                   update_entries, custom_date_var>>

\* button "Crystal Ball Assessment": show_crystal_ball_dialog
V3CrystalButton ==
    /\ app = "v3" /\ stage = "main"
    /\ DialogBudget
    /\ stage' = "dialog"
    /\ out' = Report("v3_crystal_button", "assess", <<>>)
    /\ UNCHANGED <<db_vars, data_file, app, is_first_run, local, skill_levels, v3_vars>>

\* variant: the value is not clamped
clamp_none(new_level) == new_level

\* max(1, min(100, new_level))
clamp(new_level) ==
    LET lo == IF 100 < new_level THEN 100 ELSE new_level
    IN  IF 1 > lo THEN 1 ELSE lo

RECURSIVE crystal_updates_stored_gain(_, _)
\* variant: the gain is the level itself
crystal_updates_stored_gain(entries, i) ==
    IF i > NumSkills THEN <<>>
    ELSE LET k == SkillOrder[i]
             p == IF entries[k] = Blank THEN [ok |-> TRUE, val |-> 1] ELSE int(entries[k])
             u == IF p.ok THEN [Update(k, 1, clamp(p.val)) EXCEPT !.gain = clamp(p.val)]
                  ELSE Update(k, 1, 1)
         IN  <<u>> \o crystal_updates_stored_gain(entries, i + 1)

RECURSIVE crystal_updates(_, _)
\* the loop of process_crystal_ball_assessment that builds the list updates
crystal_updates(entries, i) ==
    IF i > NumSkills THEN <<>>
    ELSE LET k == SkillOrder[i]
             p == IF entries[k] = Blank THEN [ok |-> TRUE, val |-> 1] ELSE int(entries[k])
             u == IF p.ok THEN Update(k, 1, clamp(p.val)) ELSE Update(k, 1, 1)
         IN  <<u>> \o crystal_updates(entries, i + 1)

\* one transaction: session row with the summed gains, then the rows of updates
process_crystal_ball_assessment(db, timestamp, entries) ==
    LET updates == crystal_updates(entries, 1)
        session_id == Len(db.sessions) + 1
        row == [id |-> session_id, session_timestamp |-> timestamp,
                total_gains |-> sum_gains(updates),
                session_type |-> "crystal_ball_assessment", notes |-> CrystalNotes]
    IN  write_updates([db EXCEPT !.sessions = Append(db.sessions, row)],
                      session_id, updates)

\* dialog button "Complete Assessment": save_crystal_assessment up to its
\* message box; the dialog is gone, the cached levels are not refreshed yet
V3DialogComplete(entries, now) ==
    /\ app = "v3" /\ Top(stage) = "dialog"
    /\ TimerBudget
    /\ SetDB(process_crystal_ball_assessment(DB, Timestamp(TodayText, now), entries))
    /\ stage' = Push(Under(stage), "assessed_box")
    /\ out' = Report("v3_assessment", "saved", <<>>)
    /\ UNCHANGED <<data_file, app, is_first_run, local, skill_levels, v3_vars>>

\* save_crystal_assessment after its message box: showinfo returns (the box
\* "Assessment Complete!" is closed) and the handler ends with
\* refresh_all_data.  The handler is one call that waits in the event loop
\* of its box, where the timer can run; stage holds that position
V3AssessedBoxClosed ==
    /\ app = "v3" /\ Returns(stage, "assessed_box")
    /\ update_entries' = refresh_all_data(update_entries, skills)
    /\ stage' = Without(stage, "assessed_box")
    /\ out' = Report("v3_assessed_box", "closed", <<>>)
    /\ UNCHANGED <<db_vars, data_file, app, is_first_run, local, skill_levels,
                   custom_date_var, welcome_pending>>

\* dialog button "Cancel"
V3DialogCancel ==
    /\ app = "v3" /\ Top(stage) = "dialog"
    /\ stage' = Under(stage)
    /\ out' = Report("v3_assessment", "cancelled", <<>>)
    /\ UNCHANGED <<db_vars, data_file, app, is_first_run, local, skill_levels, v3_vars>>

\* the user types into one entry of the update form
V3TypeEntry(k, text) ==
    /\ app = "v3" /\ stage = "main"
    /\ FormBudget
    /\ update_entries[k].var # text
    /\ update_entries' = [update_entries EXCEPT ![k].var = text]
    /\ out' = Report("v3_type", "ok", <<>>)
    /\ UNCHANGED <<db_vars, data_file, app, stage, is_first_run, local, skill_levels,
                   custom_date_var, welcome_pending>>

\* the user types into the custom date field
V3TypeDate(text) ==
    /\ app = "v3" /\ stage = "main"
    /\ FormBudget
    /\ custom_date_var # text
    /\ custom_date_var' = text
    /\ out' = Report("v3_type", "ok", <<>>)
    /\ UNCHANGED <<db_vars, data_file, app, stage, is_first_run, local, skill_levels,
                   update_entries, welcome_pending>>

RECURSIVE scan_entries_partial(_, _, _, _, _)
\* variant: an entry that fails is skipped and the rest of the batch is kept
scan_entries_partial(entries, i, updates, total_gains, trace) ==
    IF i > NumSkills
    THEN [result |-> "valid", updates |-> updates, total_gains |-> total_gains,
          trace |-> trace]
    ELSE LET k == SkillOrder[i]
             current_level == entries[k].current
             r == update_input_v3(entries[k].var, current_level)
             tr == Append(trace, UpdateEntry(k, entries[k].var, current_level, r.verdict,
                                             update_message_v3(k[2], r.verdict)))
         IN  IF ~Rejected(r.verdict) /\ r.new_level > current_level
             THEN scan_entries_partial(entries, i + 1,
                               Append(updates, Update(k, current_level, r.new_level)),
                               total_gains + (r.new_level - current_level), tr)
             ELSE scan_entries_partial(entries, i + 1, updates, total_gains, tr)

RECURSIVE scan_entries_zero_gain(_, _, _, _, _)
\* variant: an entry equal to the current level is kept as an update of gain 0
scan_entries_zero_gain(entries, i, updates, total_gains, trace) ==
    IF i > NumSkills
    THEN [result |-> "valid", updates |-> updates, total_gains |-> total_gains,
          trace |-> trace]
    ELSE LET k == SkillOrder[i]
             current_level == entries[k].current
             r == update_input_v3(entries[k].var, current_level)
             tr == Append(trace, UpdateEntry(k, entries[k].var, current_level, r.verdict,
                                             update_message_v3(k[2], r.verdict)))
         IN  IF Rejected(r.verdict)
             THEN [result |-> "error", updates |-> updates,
                   total_gains |-> total_gains, trace |-> tr]
             ELSE IF r.verdict = "ok"
             THEN scan_entries_zero_gain(entries, i + 1,
                               Append(updates, Update(k, current_level, r.new_level)),
                               total_gains + (r.new_level - current_level), tr)
             ELSE scan_entries_zero_gain(entries, i + 1, updates, total_gains, tr)

RECURSIVE scan_entries(_, _, _, _, _)
\* the validation loop of process_skill_updates: stops at the first error
scan_entries(entries, i, updates, total_gains, trace) ==
    IF i > NumSkills
    THEN [result |-> "valid", updates |-> updates, total_gains |-> total_gains,
          trace |-> trace]
    ELSE LET k == SkillOrder[i]
             current_level == entries[k].current
             r == update_input_v3(entries[k].var, current_level)
             tr == Append(trace, UpdateEntry(k, entries[k].var, current_level, r.verdict,
                                             update_message_v3(k[2], r.verdict)))
         IN  IF Rejected(r.verdict)
             THEN [result |-> "error", updates |-> updates,
                   total_gains |-> total_gains, trace |-> tr]
             ELSE IF r.new_level > current_level
             THEN scan_entries(entries, i + 1,
                               Append(updates, Update(k, current_level, r.new_level)),
                               total_gains + (r.new_level - current_level), tr)
             ELSE scan_entries(entries, i + 1, updates, total_gains, tr)

\* button "Save Updates": process_skill_updates up to its last message box;
\* after a commit the form still holds the texts and the old cached levels
V3SaveUpdates(now) ==
    /\ app = "v3" /\ stage = "main"
    /\ Budget /\ TimerBudget
    /\ LET v == scan_entries(update_entries, 1, <<>>, 0, <<>>)
           custom_date == strip(custom_date_var)
           timestamp == IF custom_date # Blank THEN Timestamp(custom_date, now)
                        ELSE Timestamp(TodayText, now)
       IN  IF v.result = "error"
           THEN /\ out' = Report("v3_update", "error", v.trace)
                /\ UNCHANGED <<db_vars, stage>>
           ELSE IF v.updates = <<>>
           THEN /\ out' = Report("v3_update", "no_changes", v.trace)
                /\ UNCHANGED <<db_vars, stage>>
           ELSE IF custom_date # Blank /\ ~strptime_ok(custom_date)
           THEN /\ out' = Report("v3_update", "invalid_date", v.trace)
                /\ UNCHANGED <<db_vars, stage>>
           ELSE /\ SetDB(save_update_session(DB, timestamp, v.updates, v.total_gains))
                /\ out' = Report("v3_update", "saved", v.trace)
                /\ stage' = "saved_box"
    /\ UNCHANGED <<data_file, app, is_first_run, local, skill_levels, v3_vars>>

\* process_skill_updates after its message box: showinfo returns (the box
\* "Success!" is closed) and the handler clears the entries and the custom
\* date and ends with refresh_all_data.  The handler is one call that waits
\* in the event loop of its box, where the timer can run; stage holds that
\* position
V3SavedBoxClosed ==
    /\ app = "v3" /\ Returns(stage, "saved_box")
    /\ update_entries' =
          refresh_all_data([k \in SkillKeys |-> [update_entries[k] EXCEPT !.var = Blank]],
                           skills)
    /\ custom_date_var' = Blank
    /\ stage' = Without(stage, "saved_box")
    /\ out' = Report("v3_saved_box", "closed", <<>>)
    /\ UNCHANGED <<db_vars, data_file, app, is_first_run, local, skill_levels,
                   welcome_pending>>

\* button "Refresh All": refresh_all_data
V3RefreshAll ==
    /\ app = "v3" /\ stage = "main"
    /\ update_entries' = refresh_all_data(update_entries, skills)
    /\ out' = Report("v3_refresh", "shown", <<refresh_stats_display(skills)>>)
    /\ UNCHANGED <<db_vars, data_file, app, stage, is_first_run, local, skill_levels,
                   custom_date_var, welcome_pending>>

\* the main window is closed
V3Exit ==
    /\ app = "v3" /\ stage = "main"
    /\ ProcessGone
    /\ out' = Report("v3_exit", "ok", <<>>)
    /\ UNCHANGED <<db_vars, data_file>>

(***************************************************************************)
(* v1: src/sl.py                                                            *)
(***************************************************************************)
\* the try block of save_data / save_session: the file as json.load returns
\* it, the replacement for FileNotFoundError and JSONDecodeError; bytes that
\* are no text raise UnicodeDecodeError, which is not caught
read_or_new(f) ==
    IF f.status = "ok" THEN [error |-> "none", data |-> f]
    ELSE IF f.status = "undecodable" THEN [error |-> "UnicodeDecodeError", data |-> f]
    ELSE [error |-> "none",
          data |-> [status |-> "ok", skill_levels |-> get_current_skills({}),
                    sessions |-> <<>>]]

\* load_data: saved levels of known skills replace the defaults
load_data(levels, f) ==
    IF f.status = "ok"
    THEN [k \in SkillKeys |->
             IF k \in DOMAIN f.skill_levels THEN f.skill_levels[k] ELSE levels[k]]
    ELSE levels

\* the file after save_session; an exception leaves it as it was
save_session(f, session_data) ==
    LET r == read_or_new(f)
    IN  IF r.error # "none" THEN [error |-> r.error, file |-> f]
        ELSE [error |-> "none",
              file |-> [r.data EXCEPT !.sessions = Append(r.data.sessions, session_data)]]

\* the file after save_data; an exception leaves it as it was
save_data(f, levels) ==
    LET r == read_or_new(f)
    IN  IF r.error # "none" THEN [error |-> r.error, file |-> f]
        ELSE [error |-> "none", file |-> [r.data EXCEPT !.skill_levels = levels]]

\* v1 update prompt: one pass of the "while True" loop
update_input_v1(user_text, current_level) ==
    LET user_input == strip(user_text) IN
    IF user_input = Blank THEN [verdict |-> "keep", new_level |-> current_level]
    ELSE IF ~int(user_input).ok THEN [verdict |-> "invalid", new_level |-> current_level]
    ELSE [verdict |-> check_level(int(user_input).val, current_level),
          new_level |-> int(user_input).val]

\* SoloLevelingSystem(): default levels, load_data, then main_menu; load_data
\* catches FileNotFoundError and JSONDecodeError only
V1Start ==
    /\ app = "none"
    /\ IF data_file.status = "undecodable"
       THEN /\ out' = Report("v1_start", "UnicodeDecodeError", <<>>)
            /\ UNCHANGED <<app, stage, skill_levels>>
       ELSE /\ app' = "v1"
            /\ skill_levels' = load_data(DefaultLevels, data_file)
            /\ stage' = "menu"
            /\ out' = Report("v1_start", "ok", <<>>)
    /\ UNCHANGED <<db_vars, data_file, is_first_run, local, v3_vars>>

\* main_menu choice "2": update_skills_session up to its first prompt
V1MenuUpdate(now) ==
    /\ app = "v1" /\ stage = "menu"
    /\ FileBudget
    /\ stage' = "update"
    /\ local' = [NoLocal EXCEPT !.idx = 1, !.timestamp = Timestamp(TodayText, now)]
    /\ out' = Report("v1_update", "begin", <<>>)
    /\ UNCHANGED <<db_vars, data_file, app, is_first_run, skill_levels, v3_vars>>

\* update_skills_session: one answer to the prompt of skill local.idx; every
\* accepted answer is applied to self.skill_levels and recorded, the last one
\* runs save_session and save_data; an exception of theirs ends the program
V1UpdateInput(text) ==
    /\ app = "v1" /\ stage = "update"
    /\ LET k == SkillOrder[local.idx]
           current_level == skill_levels[k]
           r == update_input_v1(text, current_level)
           tr == <<UpdateEntry(k, text, current_level, r.verdict,
                               update_message_v2(r.verdict))>>
           ups == Append(local.session_updates, Update(k, current_level, r.new_level))
           session_data == [timestamp |-> local.timestamp, updates |-> ups]
           levels == [skill_levels EXCEPT ![k] = r.new_level]
           appended == save_session(data_file, session_data)
           saved == save_data(appended.file, levels)
       IN  IF Rejected(r.verdict)
           THEN /\ out' = Report("v1_update", "retry", tr)
                /\ UNCHANGED <<data_file, app, stage, local, skill_levels,
                               is_first_run, v3_vars>>
           ELSE IF local.idx < NumSkills
           THEN /\ skill_levels' = levels
                /\ out' = Report("v1_update", "accepted", tr)
                /\ local' = [local EXCEPT !.idx = local.idx + 1,
                                          !.session_updates = ups]
                /\ UNCHANGED <<data_file, app, stage, is_first_run, v3_vars>>
           ELSE IF appended.error # "none"
           THEN /\ out' = Report("v1_update", appended.error, tr)
                /\ ProcessGone
                /\ UNCHANGED data_file
           ELSE /\ skill_levels' = levels
                /\ data_file' = saved.file
                /\ out' = Report("v1_update", "saved", tr)
                /\ stage' = "menu"
                /\ local' = NoLocal
                /\ UNCHANGED <<app, is_first_run, v3_vars>>
    /\ UNCHANGED db_vars

\* main_menu choices "1" and "3": display_current_stats, view_history
V1Read(op) ==
    /\ app = "v1" /\ stage = "menu"
    /\ LET h == view_history_v1(data_file) IN
       IF op = "v1_display_current_stats"
       THEN /\ out' = Report(op, "shown", <<display_current_stats_v1(skill_levels)>>)
            /\ UNCHANGED <<app, stage, is_first_run, local, skill_levels, v3_vars>>
       ELSE IF h.error = "none"
       THEN /\ out' = Report(op, "shown", h.shown)
            /\ UNCHANGED <<app, stage, is_first_run, local, skill_levels, v3_vars>>
       ELSE /\ out' = Report(op, h.error, h.shown)
            /\ ProcessGone
    /\ UNCHANGED <<db_vars, data_file>>

\* main_menu choice "4"
V1Exit ==
    /\ app = "v1" /\ stage = "menu"
    /\ ProcessGone
    /\ out' = Report("v1_exit", "ok", <<>>)
    /\ UNCHANGED <<db_vars, data_file>>

(***************************************************************************)
(* Specification                                                            *)
(***************************************************************************)
\* the readings of the clock: any time of day, whatever was read before, for
\* the first two sessions of a behaviour; later sessions are explored with
\* one reading
Clock == IF Committed <= 1 THEN Now ELSE {2}

\* a program is started while the stores hold at most two sessions
StartBudget == Committed <= 2

Next ==
    \/ StartBudget /\ V2Start
    \/ \E choice \in {"y", "n"}, now \in Clock : V2Welcome(choice, now)
    \/ \E confirm \in {"y", "n"}, now \in Clock : V2MenuAssessment(confirm, now)
    \/ \E text \in AssessTexts : V2AssessInput(text)
    \/ \E date_text \in DateTexts, now \in Clock : V2MenuUpdate(date_text, now)
    \/ \E text \in UpdateTexts : V2UpdateInput(text)
    \/ \E op \in {"v2_display_current_stats", "v2_view_history"} : V2Read(op)
    \/ V2Exit
    \/ StartBudget /\ V3Start
    \/ \E result \in BOOLEAN : V3Welcome(result)
    \/ V3CrystalButton
    \/ \E entries \in [SkillKeys -> AssessTexts], now \in Clock :
          V3DialogComplete(entries, now)
    \/ V3AssessedBoxClosed
    \/ V3DialogCancel
    \/ \E k \in SkillKeys, text \in UpdateTexts : V3TypeEntry(k, text)
    \/ \E text \in DateTexts : V3TypeDate(text)
    \/ \E now \in Clock : V3SaveUpdates(now)
    \/ V3SavedBoxClosed
    \/ V3RefreshAll
    \/ V3Exit
    \/ StartBudget /\ V1Start
    \/ \E now \in Clock : V1MenuUpdate(now)
    \/ \E text \in UpdateTexts : V1UpdateInput(text)
    \/ \E op \in {"v1_display_current_stats", "v1_view_history"} : V1Read(op)
    \/ V1Exit

Spec == Init /\ [][Next]_vars

(***************************************************************************)
(* Crashes: the process dies inside a handler                               *)
(***************************************************************************)
CorruptFile == [status |-> "corrupt", skill_levels |-> get_current_skills({}),
                sessions |-> <<>>]

\* v2 / v3 die at any point.  Every write of a handler is made inside one
\* SQLite transaction ended by conn.commit(): dying before it leaves the
\* database as it was, dying after it is the completed handler.
SqliteCrash ==
    /\ app \in {"v2", "v3"}
    /\ ProcessGone
    /\ out' = Report("crash", "sqlite", <<>>)
    /\ UNCHANGED <<db_vars, data_file>>

\* v1 dies while it waits at a prompt: nothing was written yet
V1Crash ==
    /\ app = "v1"
    /\ ProcessGone
    /\ out' = Report("crash", "v1", <<>>)
    /\ UNCHANGED <<db_vars, data_file>>

CrashPoints == {"in_save_session", "after_save_session", "in_save_data"}

\* v1 dies after the last accepted answer, inside save_session / save_data:
\* each of them rewrites the whole file with open(..., 'w') and json.dump,
\* after it has read the file; a read that raises ends the program before
\* anything is written
V1CrashInSave(text, point) ==
    /\ app = "v1" /\ stage = "update" /\ local.idx = NumSkills
    /\ LET k == SkillOrder[local.idx]
           current_level == skill_levels[k]
           r == update_input_v1(text, current_level)
           ups == Append(local.session_updates, Update(k, current_level, r.new_level))
           session_data == [timestamp |-> local.timestamp, updates |-> ups]
       IN  /\ ~Rejected(r.verdict)
           /\ save_session(data_file, session_data).error = "none"
           /\ data_file' =
                 IF point = "after_save_session"
                 THEN save_session(data_file, session_data).file
                 ELSE CorruptFile
    /\ ProcessGone
    /\ out' = Report("crash", point, <<>>)
    /\ UNCHANGED db_vars

NextCrash ==
    \/ Next
    \/ SqliteCrash
    \/ V1Crash
    \/ \E text \in UpdateTexts, point \in CrashPoints : V1CrashInSave(text, point)

SpecCrash == Init /\ [][NextCrash]_vars

(***************************************************************************)
(* The leveling calculator on its own                                      *)
(***************************************************************************)
MinTotalPoints == 0 - 2
MaxPointsChoices == {0, 100, 200}

Call(total_points, max_points, level) ==
    [total_points |-> total_points, max_points |-> max_points, level |-> level]

\* a call with arguments drawn from the bounded sets is about to be made
InitLevel ==
    /\ skills = {}
    /\ sessions = <<>>
    /\ session_updates = <<>>
    /\ data_file = EmptyFile
    /\ app = "none"
    /\ stage = "off"
    /\ is_first_run = FALSE
    /\ local = NoLocal
    /\ skill_levels = DefaultLevels
    /\ update_entries = NoEntries
    /\ custom_date_var = Blank
    /\ welcome_pending = FALSE
    /\ \E total_points \in MinTotalPoints..MaxTotalPoints, max_points \in MaxPointsChoices :
          out = Report("sigmoid_level_calculation", "call",
                       <<Call(total_points, max_points, 0)>>)

\* the call returns or raises
CallSigmoid ==
    /\ out.op = "sigmoid_level_calculation" /\ out.result = "call"
    /\ LET c == out.trace[1]
           r == sigmoid_level_calculation(c.total_points, c.max_points)
       IN  out' = Report("sigmoid_level_calculation", r.error,
                         <<Call(c.total_points, c.max_points, r.level)>>)
    /\ UNCHANGED <<db_vars, data_file, app, stage, is_first_run, local, skill_levels,
                   v3_vars>>

NextLevel == CallSigmoid

SpecLevel == InitLevel /\ [][NextLevel]_vars

(***************************************************************************)
(* The history readers on a store that already holds sessions              *)
(***************************************************************************)
\* dates that strptime("%Y-%m-%d") accepts: without leading zeros, and with
\* a blank before a one-digit day
ShortDate == <<"2","0","3","0","-","1","-","1">>
BlankDayDate == <<"2","0","3","0","-","0","1","-"," ","1">>
CustomDates == {GoodDate, ShortDate, BlankDayDate}

\* what n update sessions of v2 leave behind, each raising the first skill
\* by one level, session j (if any) entered with the custom date d
HistorySessions(n, j, d) ==
    [i \in 1..n |->
        [id |-> i,
         session_timestamp |-> Timestamp(IF i = j THEN d ELSE TodayText, i),
         total_gains |-> 1, session_type |-> "skill_update", notes |-> NoNotes]]

HistoryUpdates(n) ==
    [i \in 1..n |-> UpdateRow(i, Update(SkillOrder[1], i, i + 1))]

HistorySkills(n) ==
    update_skill_row(init_database({}), SkillOrder[1][1], SkillOrder[1][2], n + 1)

\* what n update sessions of v1 leave behind in its file
HistoryFile(n) ==
    [status |-> "ok",
     skill_levels |-> [k \in SkillKeys |-> IF k = SkillOrder[1] THEN n + 1 ELSE 1],
     sessions |->
        [i \in 1..n |->
            [timestamp |-> Timestamp(TodayText, i),
             updates |-> [x \in 1..NumSkills |->
                             IF x = 1 THEN Update(SkillOrder[1], i, i + 1)
                             ELSE Update(SkillOrder[x], 1, 1)]]]]

InitHistory ==
    /\ app = "none"
    /\ stage = "off"
    /\ is_first_run = FALSE
    /\ local = NoLocal
    /\ skill_levels = DefaultLevels
    /\ update_entries = NoEntries
    /\ custom_date_var = Blank
    /\ welcome_pending = FALSE
    /\ out = Report("none", "none", <<>>)
    /\ \/ \E n \in 0..MaxHistory : \E j \in 0..n : \E d \in CustomDates :
             /\ skills = HistorySkills(n)
             /\ sessions = HistorySessions(n, j, d)
             /\ session_updates = HistoryUpdates(n)
             /\ data_file = EmptyFile
       \/ \E n \in 1..MaxHistory :
             /\ skills = {}
             /\ sessions = <<>>
             /\ session_updates = <<>>
             /\ data_file = HistoryFile(n)

\* the update sessions of v2 are entered at any time of day
NextHistory ==
    \/ V2Start
    \/ \E choice \in {"n"}, now \in Now : V2Welcome(choice, now)
    \/ \E date_text \in CustomDates \cup {Blank}, now \in Now :
          V2MenuUpdate(date_text, now)
    \/ \E text \in UpdateTexts : V2UpdateInput(text)
    \/ \E op \in {"v2_display_current_stats", "v2_view_history"} : V2Read(op)
    \/ V2Exit
    \/ V1Start
    \/ \E op \in {"v1_display_current_stats", "v1_view_history"} : V1Read(op)
    \/ V1Exit

SpecHistory == InitHistory /\ [][NextHistory]_vars

(***************************************************************************)
(* Startup on the persisted state the program finds                        *)
(***************************************************************************)
\* a skills table the program initialised, some of its rows deleted since;
\* no rows at all is also the database that does not exist yet
FoundStores == {{SkillRow(k, 1) : k \in S} : S \in SUBSET SkillKeys}

\* leveling_data.json holding bytes that are not text in the encoding of open()
UndecodableFile == [status |-> "undecodable", skill_levels |-> get_current_skills({}),
                    sessions |-> <<>>]

FileLevels == {1, 5}

\* the file missing, not JSON, not text, or JSON with levels for some skills
FoundFiles ==
    {EmptyFile, CorruptFile, UndecodableFile} \cup
    {[status |-> "ok", skill_levels |-> levels, sessions |-> <<>>] :
        levels \in UNION {[S -> FileLevels] : S \in SUBSET SkillKeys}}

InitStartup ==
    /\ app = "none"
    /\ stage = "off"
    /\ is_first_run = FALSE
    /\ local = NoLocal
    /\ skill_levels = DefaultLevels
    /\ update_entries = NoEntries
    /\ custom_date_var = Blank
    /\ welcome_pending = FALSE
    /\ out = Report("none", "none", <<>>)
    /\ sessions = <<>>
    /\ session_updates = <<>>
    /\ \/ skills \in FoundStores /\ data_file = EmptyFile
       \/ skills = {} /\ data_file \in FoundFiles

NextStartup ==
    \/ V2Start
    \/ \E choice \in {"n"}, now \in Now : V2Welcome(choice, now)
    \/ \E date_text \in {Blank}, now \in Now : V2MenuUpdate(date_text, now)
    \/ \E text \in UpdateTexts : V2UpdateInput(text)
    \/ \E op \in {"v2_display_current_stats", "v2_view_history"} : V2Read(op)
    \/ V2Exit
    \/ V3Start
    \/ V3RefreshAll
    \/ V3Exit
    \/ V1Start
    \/ \E op \in {"v1_display_current_stats", "v1_view_history"} : V1Read(op)
    \/ V1Exit

SpecStartup == InitStartup /\ [][NextStartup]_vars

(***************************************************************************)
(* The assessments on their own: the runs in which no update session is    *)
(* started                                                                 *)
(***************************************************************************)
NextAssessment ==
    \/ V2Start
    \/ \E choice \in {"y", "n"}, now \in Now : V2Welcome(choice, now)
    \/ \E confirm \in {"y", "n"}, now \in Now : V2MenuAssessment(confirm, now)
    \/ \E text \in AssessTexts : V2AssessInput(text)
    \/ \E op \in {"v2_display_current_stats", "v2_view_history"} : V2Read(op)
    \/ V2Exit
    \/ V3Start
    \/ \E result \in BOOLEAN : V3Welcome(result)
    \/ V3CrystalButton
    \/ \E entries \in [SkillKeys -> AssessTexts], now \in Now :
          V3DialogComplete(entries, now)
    \/ V3AssessedBoxClosed
    \/ V3DialogCancel
    \/ V3RefreshAll
    \/ V3Exit

SpecAssessment == Init /\ [][NextAssessment]_vars

(***************************************************************************)
(* The store write path on its own                                         *)
(***************************************************************************)
MinWriteLevel == 0 - 1

\* save_update_session is handed one update of a skill of an initialised store
InitWrite ==
    /\ skills = init_database({})
    /\ sessions = <<>>
    /\ session_updates = <<>>
    /\ data_file = EmptyFile
    /\ app = "none"
    /\ stage = "off"
    /\ is_first_run = FALSE
    /\ local = NoLocal
    /\ skill_levels = DefaultLevels
    /\ update_entries = NoEntries
    /\ custom_date_var = Blank
    /\ welcome_pending = FALSE
    /\ \E k \in SkillKeys : \E new_level \in MinWriteLevel..MaxWriteLevel :
          out = Report("save_update_session", "call", <<Update(k, 1, new_level)>>)

CallSaveUpdateSession(now) ==
    /\ out.op = "save_update_session" /\ out.result = "call"
    /\ SetDB(save_update_session(DB, Timestamp(TodayText, now), out.trace,
                                 sum_gains(out.trace)))
    /\ out' = Report("save_update_session", "committed", out.trace)
    /\ UNCHANGED <<data_file, app, stage, is_first_run, local, skill_levels, v3_vars>>

NextWrite == \E now \in Now : CallSaveUpdateSession(now)

SpecWrite == InitWrite /\ [][NextWrite]_vars

(***************************************************************************)
(* Vocabulary of the properties                                             *)
(***************************************************************************)
IsPrefix(s, t) == Len(s) <= Len(t) /\ SubSeq(t, 1, Len(s)) = s

StoredLevel(rows, k) == get_level(get_current_skills(rows), k)

RowsOfKey(rows, k) == {r \in rows : r.attribute = k[1] /\ r.skill_name = k[2]}

\* indices of the session_updates rows of one session
UpdatesOf(su, id) == {i \in 1..Len(su) : su[i].session_id = id}

UpdatesOfKey(su, id, k) ==
    {i \in UpdatesOf(su, id) : su[i].attribute = k[1] /\ su[i].skill_name = k[2]}

RECURSIVE SumOver(_, _)
SumOver(su, idxs) ==
    IF idxs = {} THEN 0
    ELSE LET i == CHOOSE j \in idxs : TRUE IN su[i].gain + SumOver(su, idxs \ {i})

UpdateSessionIds == {sessions[i].id : i \in {j \in 1..Len(sessions) :
                                                 sessions[j].session_type = "skill_update"}}

RuleOK(u) ==
    /\ u.new_level >= u.old_level
    /\ u.new_level - u.old_level <= 10
    /\ u.new_level <= 100
    /\ u.gain = u.new_level - u.old_level

\* the entries of the last report whose text is a number
Numeric(e) == strip(e.text) # Blank /\ int(strip(e.text)).ok
Requested(e) == int(strip(e.text)).val

UpdateReport(o) == o.op \in {"v1_update", "v2_update", "v3_update"}

\* the step evaluated requested levels of an update (out' describes it)
Evaluated == {i \in 1..Len(out'.trace) : UpdateReport(out') /\ Numeric(out'.trace[i])}

\* the baseline of an evaluated entry is the level the store holds
BaselineIsStored(e) ==
    out'.op \in {"v2_update", "v3_update"} =>
        e.current = StoredLevel(skills, <<e.attribute, e.skill>>)

StoreUnchanged == UNCHANGED <<skills, sessions, session_updates, data_file>>

(***************************************************************************)
(* Properties                                                               *)
(***************************************************************************)

\* C1: once a store is initialised, every taxonomy skill has exactly one
\* stored current level, an integer in [1,100], after any sequence of update
\* sessions and assessments (database rows, and the levels of v1 in memory
\* and in its file).
C1_OneLevelInRange ==
    /\ \A r \in skills : /\ <<r.attribute, r.skill_name>> \in SkillKeys
                         /\ r.current_level \in 1..100
    /\ skills = {} => (sessions = <<>> /\ app \notin {"v2", "v3"})
    /\ skills # {} => \A k \in SkillKeys : Cardinality(RowsOfKey(skills, k)) = 1
    /\ \A k \in SkillKeys : skill_levels[k] \in 1..100
    /\ \A k \in DOMAIN data_file.skill_levels : data_file.skill_levels[k] \in 1..100

\* an assessment followed by an update session has taken a skill to 100
C1_Witness ==
    /\ Len(sessions) = 2
    /\ sessions[1].session_type = "crystal_ball_assessment"
    /\ sessions[2].session_type = "skill_update"
    /\ \E r \in skills : r.current_level = 100

\* C2: every SessionUpdate recorded by an update session has
\* new_level >= old_level, new_level - old_level <= 10, new_level <= 100 and
\* gain = new_level - old_level (rows of the database and entries of the
\* sessions in the file of v1).
C2_UpdateRowsObeyRules ==
    /\ \A i \in 1..Len(session_updates) :
          session_updates[i].session_id \in UpdateSessionIds => RuleOK(session_updates[i])
    /\ \A i \in 1..Len(data_file.sessions) :
          \A j \in 1..Len(data_file.sessions[i].updates) :
              RuleOK(data_file.sessions[i].updates[j])

\* an update session recorded the largest allowed gain, and one reached 100
C2_Witness ==
    /\ \E i \in 1..Len(session_updates) :
          /\ session_updates[i].session_id \in UpdateSessionIds
          /\ session_updates[i].new_level = 100
    /\ \E i \in 1..Len(session_updates) :
          /\ session_updates[i].session_id \in UpdateSessionIds
          /\ session_updates[i].gain = 10

\* C3: in process_skill_updates, if any entry of the form fails validation,
\* nothing is stored: no session, no session update, no level change, also
\* for the entries that passed before the failing one.
C3_BatchRejectedWhole ==
    [][(/\ out'.op = "v3_update"
        /\ \E k \in SkillKeys :
              Rejected(update_input_v3(update_entries[k].var,
                                       update_entries[k].current).verdict))
       => StoreUnchanged]_vars

\* a batch was rejected at its second entry after the first one had passed
\* with a higher level
C3_Witness ==
    /\ out.op = "v3_update" /\ out.result = "error"
    /\ Len(out.trace) = 2
    /\ out.trace[1].verdict = "ok"
    /\ Requested(out.trace[1]) > out.trace[1].current
    /\ StoredLevel(skills, SkillOrder[1]) = out.trace[1].current

\* C4: a requested level below the skill's current level is rejected with
\* the level-decrease error, and the step that rejects it changes nothing in
\* the store.
C4_DecreaseRejected ==
    [][\A i \in Evaluated :
          LET e == out'.trace[i] IN
          Requested(e) < e.current =>
              /\ e.verdict = "decrease"
              /\ BaselineIsStored(e)
              /\ StoreUnchanged
              /\ UNCHANGED skill_levels]_vars

\* the update form was rejected for an entry below the stored level
C4_Witness ==
    /\ out.op = "v3_update" /\ out.result = "error"
    /\ \E i \in 1..Len(out.trace) :
          /\ out.trace[i].verdict = "decrease"
          /\ Requested(out.trace[i]) < StoredLevel(skills, <<out.trace[i].attribute,
                                                             out.trace[i].skill>>)

\* C5: a requested level more than 10 above the skill's current level is
\* rejected with the delta-exceeded error and is not committed.
C5_DeltaRejected ==
    [][\A i \in Evaluated :
          LET e == out'.trace[i] IN
          Requested(e) > e.current + 10 =>
              /\ e.verdict = "delta"
              /\ BaselineIsStored(e)
              /\ StoreUnchanged
              /\ UNCHANGED <<skill_levels, local>>]_vars

\* a text-menu answer of 12 for a skill stored at 1 was refused
C5_Witness ==
    /\ out.op = "v2_update" /\ out.result = "retry"
    /\ out.trace[1].verdict = "delta"
    /\ Requested(out.trace[1]) = out.trace[1].current + 11

\* C6 as stated: every requested level above 100 is rejected with the
\* level-ceiling error, whatever the current level of the skill.
C6_CeilingForEveryLevel ==
    [][\A i \in Evaluated :
          LET e == out'.trace[i] IN
          Requested(e) > 100 => e.verdict = "ceiling"]_vars

\* C6 amended: a requested level above 100 is always rejected and nothing is
\* stored; the error is the level-ceiling error when the request is at most
\* 10 above the current level, and the delta-exceeded error, whose check
\* comes first, when it is more than 10 above it.
C6_CeilingRejected ==
    [][\A i \in Evaluated :
          LET e == out'.trace[i] IN
          Requested(e) > 100 =>
              /\ e.verdict = (IF Requested(e) > e.current + 10 THEN "delta" ELSE "ceiling")
              /\ BaselineIsStored(e)
              /\ StoreUnchanged
              /\ UNCHANGED <<skill_levels, local>>]_vars

\* a text-menu answer of 101 for a skill stored at 95 was refused as above 100
C6_Witness ==
    /\ out.op = "v2_update" /\ out.result = "retry"
    /\ out.trace[1].verdict = "ceiling"
    /\ Requested(out.trace[1]) = 101
    /\ out.trace[1].current = 95

\* C7: a successful update session appends one session of kind update whose
\* total gain is the sum of the gains of its rows, one row per skill whose
\* level changed, carrying the level before and after; each changed skill is
\* stored at its new level and every other skill keeps its level.  In v1 the
\* session holds an entry for every skill and the unchanged ones have gain 0.
C7_UpdateSessionCommitted ==
    [][/\ (out'.op \in {"v2_update", "v3_update"} /\ out'.result = "saved")
             => Len(sessions') = Len(sessions) + 1
       /\ (out'.op = "v1_update" /\ out'.result = "saved")
             => Len(data_file'.sessions) = Len(data_file.sessions) + 1
       /\ (/\ Len(sessions') = Len(sessions) + 1
           /\ sessions'[Len(sessions')].session_type = "skill_update")
          => LET s == sessions'[Len(sessions')]
                 new == UpdatesOf(session_updates', s.id)
             IN  /\ IsPrefix(sessions, sessions')
                 /\ IsPrefix(session_updates, session_updates')
                 /\ new = (Len(session_updates) + 1)..Len(session_updates')
                 /\ new # {}
                 /\ s.total_gains = SumOver(session_updates', new)
                 /\ \A k \in SkillKeys :
                       LET before == StoredLevel(skills, k)
                           after == StoredLevel(skills', k)
                           rows == UpdatesOfKey(session_updates', s.id, k)
                       IN  IF after # before
                           THEN /\ Cardinality(rows) = 1
                                /\ \A i \in rows :
                                      /\ session_updates'[i].old_level = before
                                      /\ session_updates'[i].new_level = after
                                      /\ session_updates'[i].gain = after - before
                           ELSE rows = {}
       /\ (Len(data_file'.sessions) = Len(data_file.sessions) + 1)
          => LET s == data_file'.sessions[Len(data_file'.sessions)]
                 ofk(k) == {j \in 1..Len(s.updates) :
                               s.updates[j].attribute = k[1] /\ s.updates[j].skill = k[2]}
             IN  /\ IsPrefix(data_file.sessions, data_file'.sessions)
                 /\ \A k \in SkillKeys :
                       LET before == get_level(data_file.skill_levels, k)
                           after == get_level(data_file'.skill_levels, k)
                       IN  /\ Cardinality(ofk(k)) = 1
                           /\ \A j \in ofk(k) :
                                 /\ s.updates[j].old_level = before
                                 /\ s.updates[j].new_level = after
                                 /\ s.updates[j].gain = after - before]_vars

\* an update session raised one skill from 95 to 100 and left the other at 95
C7_Witness ==
    /\ Len(sessions) = 2
    /\ sessions[2].session_type = "skill_update"
    /\ sessions[2].total_gains = 5
    /\ Cardinality(UpdatesOf(session_updates, 2)) = 1
    /\ \E k \in SkillKeys : StoredLevel(skills, k) = 100
    /\ \E k \in SkillKeys : StoredLevel(skills, k) = 95

\* the level each skill has according to the recorded history
LastNewLevel(su, k) ==
    LET rows == {i \in 1..Len(su) : su[i].attribute = k[1] /\ su[i].skill_name = k[2]}
    IN  IF rows = {} THEN 1
        ELSE su[CHOOSE i \in rows : \A j \in rows : j <= i].new_level

LastNewLevelInFile(f, k) ==
    IF f.sessions = <<>> THEN 1
    ELSE LET s == f.sessions[Len(f.sessions)]
             rows == {j \in 1..Len(s.updates) :
                         s.updates[j].attribute = k[1] /\ s.updates[j].skill = k[2]}
         IN  IF rows = {} THEN 1
             ELSE s.updates[CHOOSE i \in rows : \A j \in rows : j <= i].new_level

\* C8: a session commit is all-or-nothing even when the process dies inside
\* it: the persisted state never holds a session without its session updates
\* and level overwrites, nor session updates or level overwrites without
\* their session (database of v2 / v3, and the readable file of v1).
C8_CommitAtomic ==
    /\ \A i \in 1..Len(sessions) : UpdatesOf(session_updates, sessions[i].id) # {}
    /\ \A i \in 1..Len(session_updates) :
          \E j \in 1..Len(sessions) : sessions[j].id = session_updates[i].session_id
    /\ \A k \in SkillKeys : StoredLevel(skills, k) = LastNewLevel(session_updates, k)
    /\ data_file.status = "ok" =>
          \A k \in SkillKeys :
              get_level(data_file.skill_levels, k) = LastNewLevelInFile(data_file, k)

\* C9: committed sessions and session updates are never changed or removed:
\* in every step the stored sequences only grow by appending.
C9_AppendOnly ==
    [][/\ IsPrefix(sessions, sessions')
       /\ IsPrefix(session_updates, session_updates')
       /\ IsPrefix(data_file.sessions, data_file'.sessions)]_vars

\* the program was started again with two committed sessions in the store,
\* the second of them an assessment
C9_Witness ==
    /\ Len(sessions) = 2
    /\ sessions[1].session_type = "skill_update"
    /\ sessions[2].session_type = "crystal_ball_assessment"
    /\ out.op \in {"v2_start", "v3_start"}

\* C10: an assessment appends a session of kind assessment with one row per
\* skill, each with old_level = 1 and gain = new_level - 1 whatever level was
\* stored before; the total gain is the sum of these gains and every skill
\* is stored at its new_level.
C10_AssessmentBaseline ==
    [][(/\ Len(sessions') = Len(sessions) + 1
        /\ sessions'[Len(sessions')].session_type = "crystal_ball_assessment")
       => LET s == sessions'[Len(sessions')]
              new == UpdatesOf(session_updates', s.id)
          IN  /\ new = (Len(session_updates) + 1)..Len(session_updates')
              /\ s.total_gains = SumOver(session_updates', new)
              /\ \A k \in SkillKeys :
                    LET rows == UpdatesOfKey(session_updates', s.id, k) IN
                    /\ Cardinality(rows) = 1
                    /\ \A i \in rows :
                          /\ session_updates'[i].old_level = 1
                          /\ session_updates'[i].gain = session_updates'[i].new_level - 1
                          /\ session_updates'[i].new_level \in 1..100
                          /\ StoredLevel(skills', k) = session_updates'[i].new_level]_vars

\* an assessment put a skill stored at 11 to 95 and recorded 1 -> 95, gain 94
C10_Witness ==
    /\ Len(sessions) = 2
    /\ sessions[2].session_type = "crystal_ball_assessment"
    /\ \E i \in UpdatesOf(session_updates, 2), j \in UpdatesOf(session_updates, 1) :
          /\ session_updates[i].attribute = session_updates[j].attribute
          /\ session_updates[i].skill_name = session_updates[j].skill_name
          /\ session_updates[j].new_level = 11
          /\ session_updates[i].old_level = 1
          /\ session_updates[i].new_level = 95
          /\ session_updates[i].gain = 94
          /\ sessions[2].total_gains >= 94

\* C11: an assessment is not subject to the decrease or +10 rules: a number
\* in [1,100] is accepted whatever level is stored and becomes the stored
\* level; a number outside [1,100] never reaches the store: the text menu
\* refuses it and stores nothing, the dialog stores 100 for a number above
\* 100 and 1 for a number below 1 (and 1 for an entry that is no number).
C11_AssessmentUnconstrained ==
    [][/\ out'.op = "v2_assessment" =>
             LET e == out'.trace[1]
                 k == <<e.attribute, e.skill>>
             IN  /\ (Numeric(e) /\ Requested(e) \in 1..100) => e.verdict = "ok"
                 /\ (Numeric(e) /\ Requested(e) \notin 1..100) =>
                        /\ e.verdict = "range"
                        /\ StoreUnchanged
                        /\ UNCHANGED local
                 /\ (e.verdict = "ok" /\ out'.result = "accepted") =>
                        local'.session_updates[Len(local'.session_updates)].new_level
                            = Requested(e)
                 /\ (e.verdict = "ok" /\ out'.result = "saved") =>
                        StoredLevel(skills', k) = Requested(e)
                 /\ out'.result = "saved" =>
                        \A i \in 1..Len(local.session_updates) :
                            LET u == local.session_updates[i] IN
                            StoredLevel(skills', <<u.attribute, u.skill>>) = u.new_level
       /\ (out'.op = "v3_assessment" /\ out'.result = "saved") =>
             \A entries \in [SkillKeys -> AssessTexts], now \in Now :
                 V3DialogComplete(entries, now) =>
                     \A k \in SkillKeys :
                         LET e == TraceEntry(k, entries[k], 1, "none") IN
                         StoredLevel(skills', k) =
                             IF ~Numeric(e) THEN 1
                             ELSE IF Requested(e) > 100 THEN 100
                             ELSE IF Requested(e) < 1 THEN 1
                             ELSE Requested(e)]_vars

\* a second assessment took one skill from 95 down to 1 and the other from 1
\* up to 95
C11_Witness ==
    /\ Len(sessions) = 2
    /\ sessions[1].session_type = "crystal_ball_assessment"
    /\ sessions[2].session_type = "crystal_ball_assessment"
    /\ \E k1, k2 \in SkillKeys :
          /\ \E i \in UpdatesOfKey(session_updates, 1, k1) : session_updates[i].new_level = 95
          /\ \E i \in UpdatesOfKey(session_updates, 2, k1) : session_updates[i].new_level = 1
          /\ StoredLevel(skills, k1) = 1
          /\ \E i \in UpdatesOfKey(session_updates, 1, k2) : session_updates[i].new_level = 1
          /\ \E i \in UpdatesOfKey(session_updates, 2, k2) : session_updates[i].new_level = 95
          /\ StoredLevel(skills, k2) = 95

\* what the specification calls the first run
NoProgressNoSession ==
    /\ \A k \in SkillKeys : StoredLevel(skills, k) <= 1
    /\ Len(sessions) = 0

\* C12: check_first_run is true exactly when no skill has a stored level
\* above 1 and no session exists; it is false in every state that holds a
\* committed session, also when every skill is still at 1; the value a
\* program computes when it starts is this one.
C12_FirstRun ==
    /\ check_first_run(skills, sessions) <=> NoProgressNoSession
    /\ Len(sessions) > 0 => ~check_first_run(skills, sessions)
    /\ out.op \in {"v2_start", "v3_start"} => (is_first_run <=> NoProgressNoSession)

\* a program was started on a store whose only session is an assessment that
\* left every skill at 1, and did not take it for a first run
C12_Witness ==
    /\ out.op \in {"v2_start", "v3_start"}
    /\ Len(sessions) = 1
    /\ sessions[1].session_type = "crystal_ball_assessment"
    /\ \A k \in SkillKeys : StoredLevel(skills, k) = 1
    /\ ~is_first_run

\* levels of the snapshot a report was computed from
SnapshotLevel(o, k) ==
    IF o.op = "v1_display_current_stats" THEN skill_levels[k] ELSE StoredLevel(skills, k)

RECURSIVE SnapshotPoints(_, _, _)
SnapshotPoints(o, attribute, j) ==
    IF j > Len(attributes[attribute]) THEN 0
    ELSE SnapshotLevel(o, <<attribute, attributes[attribute][j]>>)
            + SnapshotPoints(o, attribute, j + 1)

RECURSIVE SumOfLevels(_, _)
SumOfLevels(attribute_levels, i) ==
    IF i > Len(AttributeOrder) THEN 0
    ELSE attribute_levels[AttributeOrder[i]] + SumOfLevels(attribute_levels, i + 1)

StatsReport(o) ==
    /\ o.op \in {"v1_display_current_stats", "v2_display_current_stats", "v3_refresh"}
    /\ o.result = "shown"

\* C13: in a displayed snapshot each category level is
\* level(sum of the category's skill levels, skillCount * 100) and the
\* overall level is level(sum of the category levels, categoryCount * 100),
\* an integer in [1,100].
C13_Rollups ==
    StatsReport(out) =>
        LET st == out.trace[1] IN
        /\ \A a \in DOMAIN attributes :
              st.attribute_levels[a] =
                  sigmoid_level_calculation(SnapshotPoints(out, a, 1),
                                            Len(attributes[a]) * 100).level
        /\ st.overall_level =
              sigmoid_level_calculation(SumOfLevels(st.attribute_levels, 1),
                                        Len(AttributeOrder) * 100).level
        /\ st.overall_level \in 1..100

\* C18: in an update session a blank requested value is accepted as "keep":
\* it never is the entry that fails, the level of its skill stays what it
\* was, and the committed session records no gain for it (no row in v2 / v3,
\* an entry with gain 0 in v1), whatever the current level.
C18_BlankKeeps ==
    [][\A i \in 1..Len(out'.trace) :
          (UpdateReport(out') /\ strip(out'.trace[i].text) = Blank) =>
              LET e == out'.trace[i]
                  k == <<e.attribute, e.skill>>
              IN  /\ e.verdict = "keep"
                  /\ (i = Len(out'.trace)) => out'.result \notin {"error", "retry"}
                  /\ StoredLevel(skills', k) = StoredLevel(skills, k)
                  /\ skill_levels'[k] = skill_levels[k]
                  /\ Len(sessions') > Len(sessions) =>
                        UpdatesOfKey(session_updates', Len(sessions'), k) = {}
                  /\ out'.op = "v1_update" =>
                        /\ e.current = skill_levels[k]
                        /\ out'.result = "accepted" =>
                              local'.session_updates[Len(local'.session_updates)]
                                  = Update(k, e.current, e.current)
                        /\ out'.result = "saved" =>
                              /\ data_file'.skill_levels[k] = e.current
                              /\ LET s == data_file'.sessions[Len(data_file'.sessions)]
                                 IN  s.updates[Len(s.updates)] = Update(k, e.current, e.current)]_vars

\* the update form was saved with a blank entry for a skill stored at 95 and
\* a higher level for the other skill
C18_Witness ==
    /\ out.op = "v3_update" /\ out.result = "saved"
    /\ \E i \in 1..Len(out.trace) :
          /\ out.trace[i].text = Blank
          /\ out.trace[i].current = 95
          /\ StoredLevel(skills, <<out.trace[i].attribute, out.trace[i].skill>>) = 95
    /\ \E i \in 1..Len(out.trace) : out.trace[i].verdict = "ok"

\* the call of the calculator on its own has ended
Called == out.op = "sigmoid_level_calculation" /\ out.result # "call"

\* C15: level(totalPoints, maxPoints) returns 1 whenever totalPoints <= 0,
\* whatever maxPoints is (also 0).
C15_FloorIsOne ==
    (Called /\ out.trace[1].total_points <= 0) =>
        /\ out.result = "none"
        /\ out.trace[1].level = 1

\* level(0, 200) returned 1
C15_Witness ==
    /\ Called
    /\ out.trace[1].total_points = 0
    /\ out.trace[1].max_points = 200
    /\ out.trace[1].level = 1

\* C16: for a fixed positive maxPoints the level is non-decreasing in
\* totalPoints: no smaller totalPoints, zero and negative ones included,
\* gives a higher level.
C16_Monotone ==
    (Called /\ out.trace[1].max_points > 0) =>
        /\ out.result = "none"
        /\ \A p \in MinTotalPoints..out.trace[1].total_points :
              sigmoid_level_calculation(p, out.trace[1].max_points).level
                  <= out.trace[1].level

\* level(100, 100) returned 99, well above level(50, 100) = 50
C16_Witness ==
    /\ Called
    /\ out.trace[1].total_points = 100
    /\ out.trace[1].max_points = 100
    /\ out.trace[1].level = 99
    /\ sigmoid_level_calculation(50, 100).level = 50

\* C17: for nonnegative totalPoints and maxPoints the calculator never
\* returns a value outside [1,100], also for totalPoints far above maxPoints;
\* it returns a value whenever maxPoints is positive.
C17_LevelInRange ==
    (Called /\ out.trace[1].total_points >= 0) =>
        /\ out.result = "none" => out.trace[1].level \in 1..100
        /\ out.trace[1].max_points > 0 => out.result = "none"

\* level(450, 100), four and a half times maxPoints, returned 100
C17_Witness ==
    /\ Called
    /\ out.trace[1].total_points = 450
    /\ out.trace[1].max_points = 100
    /\ out.result = "none"
    /\ out.trace[1].level = 100

\* the day a stored timestamp names, as a number
DateValue(date) ==
    LET parts == split_dash(date, <<>>)
    IN  digits_value(parts[1], 0) * 10000 + digits_value(parts[2], 0) * 100
            + digits_value(parts[3], 0)

\* timestamp a is later than timestamp b
Newer(a, b) ==
    \/ DateValue(a.date) > DateValue(b.date)
    \/ DateValue(a.date) = DateValue(b.date) /\ a.tick > b.tick

StoredTimestamps(o) ==
    IF o.op = "v1_view_history"
    THEN {data_file.sessions[i].timestamp : i \in 1..Len(data_file.sessions)}
    ELSE {sessions[i].session_timestamp : i \in 1..Len(sessions)}

\* C14: reading the history returns without error exactly the min(n, 10)
\* most recent of the n stored sessions, newest first, and an empty
\* sequence when n = 0 (view_history of v2 and of v1).
C14_HistoryNewestFirst ==
    out.op \in {"v1_view_history", "v2_view_history"} =>
        LET stored == StoredTimestamps(out)
            shown == out.trace
            rest == stored \ {shown[i].timestamp : i \in 1..Len(shown)}
        IN  /\ out.result = "shown"
            /\ Len(shown) = (IF Cardinality(stored) < 10 THEN Cardinality(stored) ELSE 10)
            /\ \A i \in 1..Len(shown) : shown[i].timestamp \in stored
            /\ \A i, j \in 1..Len(shown) :
                  i < j => Newer(shown[i].timestamp, shown[j].timestamp)
            /\ \A i \in 1..Len(shown) : \A t \in rest : Newer(shown[i].timestamp, t)

\* C19: a taxonomy skill without a row in the store reads as level 1 where
\* current levels are read: every displayed snapshot lists it with its level,
\* the update session takes that level as its baseline, and the points a
\* category rollup sums count it as 1, not 0.
C19_MissingReadsAsOne ==
    /\ StatsReport(out) =>
          \A k \in SkillKeys :
              /\ k \in DOMAIN out.trace[1].skill_lines
              /\ out.trace[1].skill_lines[k] = SnapshotLevel(out, k)
    /\ (out.op = "v2_update" /\ out.result \in {"retry", "accepted"}) =>
          \A i \in 1..Len(out.trace) :
              out.trace[i].current =
                  StoredLevel(skills, <<out.trace[i].attribute, out.trace[i].skill>>)
    /\ (StatsReport(out) /\ out.op # "v1_display_current_stats") =>
          \A a \in DOMAIN attributes :
              total_skill_points(skills, a) = SnapshotPoints(out, a, 1)

\* C20: a start that finds the persisted state missing or unreadable (no
\* file, a file that cannot be read as JSON text, no database) completes,
\* and every taxonomy skill then has level 1.
C20_StartupFallsBack ==
    [][ /\ (out'.op = "v1_start" /\ app = "none" /\ data_file.status # "ok") =>
              /\ out'.result = "ok"
              /\ app' = "v1"
              /\ skill_levels' = DefaultLevels
        /\ (out'.op \in {"v2_start", "v3_start"} /\ app = "none" /\ skills = {}) =>
              /\ out'.result = "ok"
              /\ app' \in {"v2", "v3"}
              /\ \A k \in SkillKeys : RowsOfKey(skills', k) = {SkillRow(k, 1)}
      ]_vars

\* C21: the store write path refuses a level outside [1,100]: a call of
\* save_update_session with such a new_level ends in a data-integrity error
\* and stores nothing.
C21_WriteRejectsOutOfRange ==
    (out.op = "save_update_session" /\ out.result # "call"
        /\ out.trace[1].new_level \notin 1..100) =>
        /\ out.result = "IntegrityError"
        /\ skills = init_database({})
        /\ sessions = <<>>
        /\ session_updates = <<>>

\* the verdict the specification gives one requested value: the first check
\* that fails in the order blank, non-numeric, decrease, delta, ceiling
ExpectedVerdict(e) ==
    IF strip(e.text) = Blank THEN "keep"
    ELSE IF ~Numeric(e) THEN "invalid"
    ELSE IF Requested(e) < e.current THEN "decrease"
    ELSE IF Requested(e) > e.current + 10 THEN "delta"
    ELSE IF Requested(e) > 100 THEN "ceiling"
    ELSE "ok"

\* the message holds the name of the skill
Names(message, skill) == \E i \in 1..Len(message) : message[i] = skill

\* every requested value of an update is reported under the first check that
\* fails, and the validation stops there: the failing entry is the last one
\* evaluated
ValidationOrder ==
    UpdateReport(out) =>
        \A i \in 1..Len(out.trace) :
            LET e == out.trace[i] IN
            /\ e.verdict = ExpectedVerdict(e)
            /\ Rejected(e.verdict) =>
                  /\ i = Len(out.trace)
                  /\ out.result \in {"retry", "error"}
            /\ (out.op = "v3_update" /\ i < Len(out.trace)) =>
                  <<out.trace[i + 1].attribute, out.trace[i + 1].skill>> = SkillOrder[i + 1]

\* the message shown for a non-numeric value names the skill it was entered for
InvalidInputNamesSkill ==
    UpdateReport(out) =>
        \A i \in 1..Len(out.trace) :
            out.trace[i].verdict = "invalid" =>
                Names(out.trace[i].message, out.trace[i].skill)

\* C22: every requested value of an update is judged by the checks blank,
\* non-numeric, decrease, delta above 10, ceiling above 100 in that order
\* and reported under the first one that fails, where the validation stops;
\* a non-numeric value is reported by a message that names the offending
\* skill.
C22_ValidationOrder == ValidationOrder /\ InvalidInputNamesSkill

\* the entry asks for no increase: blank, or a number equal to the current level
NoIncrease(e) == e.verdict = "keep" \/ (Numeric(e) /\ Requested(e) = e.current)

\* C23: in v2 and v3 an update session in which no skill's level increases
\* (every entry blank or equal to the current level) is reported as "no
\* changes" and leaves the store as it was: no level changes, no session and
\* no update row is appended, and the first-run test gives what it gave.
C23_NoChangeNoWrite ==
    [][/\ (/\ out'.op = "v3_update"
           /\ Len(out'.trace) = NumSkills
           /\ \A i \in 1..NumSkills : NoIncrease(out'.trace[i]))
          => /\ out'.result = "no_changes"
             /\ UNCHANGED <<skills, sessions, session_updates>>
             /\ check_first_run(skills', sessions') = check_first_run(skills, sessions)
       /\ (/\ out'.op = "v2_update"
           /\ out'.result \in {"saved", "no_changes"}
           /\ local.session_updates = <<>>
           /\ NoIncrease(out'.trace[1]))
          => /\ out'.result = "no_changes"
             /\ UNCHANGED <<skills, sessions, session_updates>>
             /\ check_first_run(skills', sessions') = check_first_run(skills, sessions)
       /\ (out'.op \in {"v2_update", "v3_update"} /\ out'.result = "no_changes")
          => UNCHANGED <<skills, sessions, session_updates>>]_vars

\* the update form was saved with one entry equal to the stored level and the
\* other blank, on a store that already holds a session
C23_Witness ==
    /\ out.op = "v3_update" /\ out.result = "no_changes"
    /\ Len(sessions) = 1
    /\ \E i, j \in 1..Len(out.trace) :
          /\ Numeric(out.trace[i])
          /\ Requested(out.trace[i]) = out.trace[i].current
          /\ out.trace[j].verdict = "keep"

\* an assessment is being filled in (prompts of v2, a dialog of v3)
Assessing(st) == st = "assess" \/ "dialog" \in {Top(st), Under(st)}

\* C24: a start offers the assessment by itself exactly when the store is a
\* first-run store; on any other store an assessment begins only from the
\* step in which the user answered the confirmation question with yes (or
\* accepted the first-run offer made at the start); declining the question or
\* the offer, or cancelling, changes no level and no session.
C24_AssessmentConfirmed ==
    [][/\ out'.op = "v2_start" =>
             ((stage' = "welcome") <=> check_first_run(skills', sessions'))
       /\ out'.op = "v3_start" =>
             (welcome_pending' <=> check_first_run(skills', sessions'))
       /\ (~Assessing(stage) /\ Assessing(stage') /\ ~check_first_run(skills, sessions)) =>
             /\ out'.result = "assess"
             /\ out'.op \in {"v2_menu_assessment", "v2_welcome", "v3_welcome"}
       /\ (out'.op \in {"v2_menu_assessment", "v2_welcome", "v3_welcome"}
              /\ out'.result = "declined") =>
             /\ Assessing(stage') => Assessing(stage)
             /\ StoreUnchanged
       /\ (out'.op = "v3_assessment" /\ out'.result = "cancelled") => StoreUnchanged]_vars

\* rows of session_updates recorded for skill k, in commit order
RowsFor(su, k) == {i \in 1..Len(su) : su[i].attribute = k[1] /\ su[i].skill_name = k[2]}

\* C25: on a store that began freshly initialised, after any committed update
\* sessions and assessments the stored level of every skill is the new_level
\* of the session update committed last for it (the row of the latest
\* session), or 1 when no session update names the skill.
C25_LevelsFromHistory ==
    \A k \in SkillKeys :
        LET rows == RowsFor(session_updates, k) IN
        IF rows = {} THEN skills # {} => StoredLevel(skills, k) = 1
        ELSE \E last \in rows :
                /\ \A i \in rows : i <= last
                /\ \A i \in rows :
                      session_updates[i].session_id <= session_updates[last].session_id
                /\ Cardinality(RowsOfKey(skills, k)) = 1
                /\ StoredLevel(skills, k) = session_updates[last].new_level

\* one skill was raised by an update session and then lowered by an
\* assessment, the other was never named by an update session before it
C25_Witness ==
    /\ Len(sessions) = 2
    /\ sessions[1].session_type = "skill_update"
    /\ sessions[2].session_type = "crystal_ball_assessment"
    /\ \E k \in SkillKeys :
          LET rows == RowsFor(session_updates, k) IN
          /\ Cardinality(rows) = 2
          /\ \E i, j \in rows :
                /\ i < j
                /\ session_updates[i].new_level > session_updates[j].new_level
                /\ StoredLevel(skills, k) = session_updates[j].new_level
    /\ \E k \in SkillKeys : Cardinality(RowsFor(session_updates, k)) = 1

\* some skill is stored lower after the step than before it
LevelLowered ==
    \/ \E k \in SkillKeys : StoredLevel(skills', k) < StoredLevel(skills, k)
    \/ \E k \in SkillKeys :
          get_level(data_file'.skill_levels, k) < get_level(data_file.skill_levels, k)

\* C26: no step lowers the stored level of a skill unless it commits an
\* assessment; in particular every step of an update session leaves each
\* stored level where it was or higher.
C26_OnlyAssessmentLowers ==
    [][(skills' # skills \/ data_file' # data_file) =>
          /\ LevelLowered =>
                /\ out'.op \in {"v2_assessment", "v3_assessment"}
                /\ out'.result = "saved"
                /\ Len(sessions') = Len(sessions) + 1
                /\ sessions'[Len(sessions')].session_type = "crystal_ball_assessment"
          /\ UpdateReport(out') =>
                /\ \A k \in SkillKeys : StoredLevel(skills', k) >= StoredLevel(skills, k)
                /\ \A k \in SkillKeys :
                      get_level(data_file'.skill_levels, k)
                          >= get_level(data_file.skill_levels, k)]_vars

\* two update sessions in a row raised the same skill and left the other
\* skill alone
C26_Witness ==
    /\ Len(sessions) = 2
    /\ sessions[1].session_type = "skill_update"
    /\ sessions[2].session_type = "skill_update"
    /\ out.op \in {"v2_update", "v3_update"}
    /\ out.result = "saved"
    /\ \E k \in SkillKeys :
          /\ Cardinality(RowsFor(session_updates, k)) = 2
          /\ StoredLevel(skills, k) = 12
    /\ \E k \in SkillKeys :
          /\ RowsFor(session_updates, k) = {}
          /\ StoredLevel(skills, k) = 1

\* a handler that committed a session waits in its message box, before its
\* refresh_all_data
BoxOpen(st) == \E box \in {"saved_box", "assessed_box"} : box \in {Top(st), Under(st)}
    /\ sessions[1].session_type = "crystal_ball_assessment"
    /\ \E i \in UpdatesOf(session_updates, 2) :
          /\ session_updates[i].old_level = 95
          /\ session_updates[i].new_level = 100
          /\ update_entries[<<session_updates[i].attribute,
                              session_updates[i].skill_name>>].current = 100

RECURSIVE TotalGains(_)
\* sum of total_gains over the stored sessions
TotalGains(sess) ==
    IF sess = <<>> THEN 0 ELSE Head(sess).total_gains + TotalGains(Tail(sess))

RECURSIVE Progress(_, _)
\* sum over the skills of (current level - 1)
Progress(rows, i) ==
    IF i > NumSkills THEN 0
    ELSE (StoredLevel(rows, SkillOrder[i]) - 1) + Progress(rows, i + 1)

\* every assessment was committed on a first-run store: it is the first session
AssessedOnFirstRunOnly ==
    \A i \in 1..Len(sessions) :
        sessions[i].session_type = "crystal_ball_assessment" => i = 1

\* C28: as long as assessments were only run on a first-run store, the sum
\* of total_gains over all stored sessions equals the sum over all skills of
\* (current level - 1).
C28_GainsMatchProgress ==
    AssessedOnFirstRunOnly => TotalGains(sessions) = Progress(skills, 1)

\* an assessment on the first-run store and an update session after it:
\* gains 94 + 5 for levels 95 -> 100 and 1
C28_Witness ==
    /\ Len(sessions) = 2
    /\ sessions[1].session_type = "crystal_ball_assessment"
    /\ sessions[2].session_type = "skill_update"
    /\ sessions[1].total_gains = 94
    /\ sessions[2].total_gains = 5
    /\ Progress(skills, 1) = 99

\* C29: in every reachable state each category level is in 1..99: a
\* category whose skills are all at 1 has level 1, one whose skills are all
\* at 100 has level 99, and level 100 is never shown for a category (store
\* of v2 / v3 and levels of v1).
C29_CategoryBelow100 ==
    \A a \in DOMAIN attributes :
        /\ skills # {} =>
              LET level == calculate_attribute_level(skills, a)
                  points == SnapshotPoints(Report("v2_display_current_stats", "shown",
                                                  <<>>), a, 1)
              IN  /\ level \in 1..99
                  /\ points = Len(attributes[a]) => level = 1
                  /\ points = Len(attributes[a]) * 100 => level = 99
        /\ calculate_attribute_level_v1(skill_levels, a) \in 1..99
        /\ StatsReport(out) => out.trace[1].attribute_levels[a] \in 1..99

\* the statistics were shown with one category full (all skills at 100,
\* level 99) and the other untouched (all skills at 1, level 1)
C29_Witness ==
    /\ StatsReport(out)
    /\ \E a, b \in DOMAIN attributes :
          /\ \A j \in 1..Len(attributes[a]) :
                StoredLevel(skills, <<a, attributes[a][j]>>) = 100
          /\ out.trace[1].attribute_levels[a] = 99
          /\ \A j \in 1..Len(attributes[b]) :
                StoredLevel(skills, <<b, attributes[b][j]>>) = 1
          /\ out.trace[1].attribute_levels[b] = 1

\* the text is not of the shape year-month-day: not three parts, or a
\* character other than a digit in a part (the blank %d takes before a
\* one-digit day aside)
Malformed(text) ==
    LET parts == split_dash(strip(text), <<>>) IN
    /\ strip(text) # Blank
    /\ \/ Len(parts) # 3
       \/ \E i \in 1..Len(parts[1]) : ~IsDigit(parts[1][i])
       \/ \E i \in 1..Len(parts[2]) : ~IsDigit(parts[2][i])
       \/ \E i \in 1..Len(day_digits(parts[3])) : ~IsDigit(day_digits(parts[3])[i])

\* the form holds a batch that passes validation and raises some level
BatchPasses ==
    /\ \A k \in SkillKeys :
          ~Rejected(ExpectedVerdict(TraceEntry(k, update_entries[k].var,
                                               update_entries[k].current, "none")))
    /\ \E k \in SkillKeys :
          LET e == TraceEntry(k, update_entries[k].var, update_entries[k].current, "none")
          IN  Numeric(e) /\ Requested(e) > e.current

\* C30: in the update form of v3 a malformed custom date aborts the save of
\* a batch whose entries all passed validation: no session and no session
\* update is appended, no level changes, and the entries and the date stay
\* in the form as typed.
C30_BadDateAbortsSave ==
    [][(out'.op = "v3_update" /\ Malformed(custom_date_var) /\ BatchPasses) =>
          /\ out'.result = "invalid_date"
          /\ StoreUnchanged
          /\ UNCHANGED <<update_entries, custom_date_var>>]_vars

\* a form with a valid raise and a malformed date was refused for the date,
\* after a session had been saved from the same window
C30_Witness ==
    /\ out.op = "v3_update" /\ out.result = "invalid_date"
    /\ Malformed(custom_date_var)
    /\ Len(sessions) = 1
    /\ \E k \in SkillKeys :
          /\ update_entries[k].var # Blank
          /\ int(strip(update_entries[k].var)).ok
          /\ int(strip(update_entries[k].var)).val > StoredLevel(skills, k)
          /\ int(strip(update_entries[k].var)).val = update_entries[k].current + 1

====
